---- MODULE Spec2Model ----
(***************************************************************************)
(* A model of the gemini-assistant plugin's tool-calling orchestration:    *)
(* GeminiService.chat (src/src/services/gemini.ts) driving VaultService    *)
(* (src/unnamed/part_002, imported by gemini.ts as './vault').             *)
(*                                                                         *)
(* Strings are sequences of one-character strings, so that includes,       *)
(* replace, split and the path arithmetic of the code can be computed.     *)
(* A path is the sequence of its '/'-separated segments; a segment is a    *)
(* string.  The folder name 'Trash' is the one-token string <<"Trash">>.   *)
(***************************************************************************)
EXTENDS Integers, Sequences, FiniteSets, TLC

\* ------------------------------------------------------------------ bounds

\* Number of turns submitted through the chat view in one behaviour.
MaxSubmits == 3

\* Number of lines of the config documents drawn for getCustomCommands.
MaxLines == 4

\* Number of replace_in_note calls dispatched in one behaviour of the replace
\* specification.
MaxReplaces == 2

\* Number of provider switches in one behaviour of the model-list specification.
MaxSwitches == 2

\* Most attachments staged at a time in the chat view.
MaxStaged == 1

\* Longest batch of tool calls one provider response requests.
MaxBatch == 2

\* Number of VaultService calls made in one behaviour of the vault specification.
MaxOps == 3

\* Longest document content drawn for the save/replace round trip.
MaxContentLen == 3

\* Longest target and replacement drawn for the save/replace round trip.
MaxTargetLen == 2

\* ------------------------------------------------------- string helpers

\* The set of all strings over alphabet S of length at most n.
StringsUpTo(S, n) == UNION {[1..k -> S] : k \in 0..n}

MinOf(S) == CHOOSE i \in S : \A j \in S : i <= j

MaxOf(S) == CHOOSE i \in S : \A j \in S : i >= j

\* The start positions of the occurrences of t in s (String.prototype.indexOf
\* semantics: the empty string occurs at every position).
Occurrences(s, t) ==
    {i \in 1..(Len(s) - Len(t) + 1) : SubSeq(s, i, i + Len(t) - 1) = t}

\* String.prototype.includes.
Includes(s, t) == Occurrences(s, t) # {}

\* Expansion of the special patterns of a replacement string
\* (String.prototype.replace with a string pattern: no capture groups, so only
\* $$, $&, $` and $' are patterns; any other $ is literal).
RECURSIVE ExpandReplacement(_, _, _, _)
ExpandReplacement(r, matched, pre, post) ==
    IF r = <<>> THEN <<>>
    ELSE IF r[1] = "$" /\ Len(r) >= 2 /\ r[2] \in {"$", "&", "`", "'"}
         THEN (CASE r[2] = "$" -> <<"$">>
                 [] r[2] = "&" -> matched
                 [] r[2] = "`" -> pre
                 [] r[2] = "'" -> post)
              \o ExpandReplacement(SubSeq(r, 3, Len(r)), matched, pre, post)
         ELSE <<r[1]>> \o ExpandReplacement(Tail(r), matched, pre, post)

\* s.replace(t, r) for strings t and r: only the leftmost occurrence of t is
\* replaced, by the expansion of r; s is returned unchanged when t is absent.
JsReplace(s, t, r) ==
    IF ~Includes(s, t) THEN s
    ELSE LET i    == MinOf(Occurrences(s, t))
             pre  == SubSeq(s, 1, i - 1)
             post == SubSeq(s, i + Len(t), Len(s))
         IN  pre \o ExpandReplacement(r, t, pre, post) \o post

\* target.replace(/\//g, '%2F')
RECURSIVE EncodeSlashes(_)
EncodeSlashes(s) ==
    IF s = <<>> THEN <<>>
    ELSE (IF s[1] = "/" THEN <<"%", "2", "F">> ELSE <<s[1]>>) \o EncodeSlashes(Tail(s))

\* target.replace(/%2F/g, '/')
RECURSIVE DecodeSlashes(_)
DecodeSlashes(s) ==
    IF s = <<>> THEN <<>>
    ELSE IF Len(s) >= 3 /\ SubSeq(s, 1, 3) = <<"%", "2", "F">>
         THEN <<"/">> \o DecodeSlashes(SubSeq(s, 4, Len(s)))
         ELSE <<s[1]>> \o DecodeSlashes(Tail(s))

\* fileName.split('.').pop(): the text after the last '.', the whole name
\* when it has no '.'.
LastDotSegment(name) ==
    LET dots == {i \in 1..Len(name) : name[i] = "."}
    IN  IF dots = {} THEN name ELSE SubSeq(name, MaxOf(dots) + 1, Len(name))

\* --------------------------------------------------- the document store
\* The Obsidian vault as VaultService sees it: files maps the path of every
\* document to its content, folders maps the path of every folder to the
\* names of its children in the order the vault holds them.

\* The name of the trash folder, 'Trash', as one token.
Trash == <<"Trash">>

\* normalizePath on a path given as its segments: empty segments (doubled,
\* leading and trailing slashes) are dropped; '/' and '' are the root, <<>>.
NormalizePath(path) == SelectSeq(path, LAMBDA seg : seg # <<>>)

Parent(p) == SubSeq(p, 1, Len(p) - 1)

BaseName(p) == IF p = <<>> THEN <<>> ELSE p[Len(p)]

IsPrefix(p, q) == Len(p) <= Len(q) /\ SubSeq(q, 1, Len(p)) = p

\* vault.getAbstractFileByPath(p) is a TFile
IsTFile(fs, p) == p \in DOMAIN fs

\* vault.getAbstractFileByPath(p) is a TFolder
IsTFolder(fo, p) == p \in DOMAIN fo

\* vault.getAbstractFileByPath(p) is not null
PathExists(fs, fo, p) == IsTFile(fs, p) \/ IsTFolder(fo, p)

WithDoc(fs, p, doc) == [q \in DOMAIN fs \cup {p} |-> IF q = p THEN doc ELSE fs[q]]

WithoutDoc(fs, p) == [q \in DOMAIN fs \ {p} |-> fs[q]]

NewDoc(text) == [fm |-> <<>>, text |-> text]

RemoveName(children, name) == SelectSeq(children, LAMBDA c : c # name)

\* vault.createFolder(p): creates p and its missing ancestors; throws when p
\* exists or an ancestor is a document.
CreateFolder(fs, fo, p) ==
    LET prefixes == {SubSeq(p, 1, k) : k \in 0..Len(p)}
        ok       == /\ p # <<>>
                    /\ ~PathExists(fs, fo, p)
                    /\ \A q \in prefixes : ~IsTFile(fs, q)
        missing  == {q \in prefixes : q \notin DOMAIN fo}
        \* the deepest ancestor that exists already
        anchor   == CHOOSE q \in prefixes \ missing :
                       \A r \in prefixes \ missing : Len(r) <= Len(q)
    IN  IF ~ok THEN [ok |-> FALSE, folders |-> fo]
        ELSE [ok |-> TRUE,
              folders |->
                [q \in DOMAIN fo \cup missing |->
                    IF q = anchor THEN Append(fo[q], p[Len(q) + 1])
                    ELSE IF q \in missing
                         THEN (IF q = p THEN <<>> ELSE <<p[Len(q) + 1]>>)
                         ELSE fo[q]]]

\* vault.create(p, content): throws when p exists or its folder does not.
Create(fs, fo, p, text) ==
    IF p = <<>> \/ PathExists(fs, fo, p) \/ ~IsTFolder(fo, Parent(p))
    THEN [ok |-> FALSE, files |-> fs, folders |-> fo]
    ELSE [ok |-> TRUE,
          files |-> WithDoc(fs, p, NewDoc(text)),
          folders |-> [fo EXCEPT ![Parent(p)] = Append(@, BaseName(p))]]

\* vault.modify(file, content): the whole content is overwritten.
Modify(fs, p, text) == WithDoc(fs, p, NewDoc(text))

\* fileManager.renameFile(file, newPath): moves a document, or a folder with
\* everything below it; throws when newPath exists, when its folder does not,
\* or when a folder would move below itself.
RenameFile(fs, fo, src, dst) ==
    LET ok == /\ src # <<>>
              /\ dst # <<>>
              /\ PathExists(fs, fo, src)
              /\ ~PathExists(fs, fo, dst)
              /\ IsTFolder(fo, Parent(dst))
              /\ ~IsPrefix(src, dst)
        Move(q)   == IF IsPrefix(src, q) THEN dst \o SubSeq(q, Len(src) + 1, Len(q)) ELSE q
        Back(q)   == IF IsPrefix(dst, q) THEN src \o SubSeq(q, Len(dst) + 1, Len(q)) ELSE q
        detached  == [fo EXCEPT ![Parent(src)] = RemoveName(@, BaseName(src))]
        attached  == [detached EXCEPT ![Parent(dst)] = Append(@, BaseName(dst))]
    IN  IF ~ok THEN [ok |-> FALSE, files |-> fs, folders |-> fo]
        ELSE [ok |-> TRUE,
              files   |-> [q \in {Move(r) : r \in DOMAIN fs} |-> fs[Back(q)]],
              folders |-> [q \in {Move(r) : r \in DOMAIN fo} |-> attached[Back(q)]]]

\* ------------------------------------------------------- VaultService
\* Every operation yields [ok, value, files, folders]: ok is FALSE when the
\* call throws, and value is then the message of the Error thrown.  A value
\* [text, arg] is the string made of the fixed text and the interpolated
\* argument (the value returned for a list or a content is tagged likewise).

Str(text, arg) == [text |-> text, arg |-> arg]

Returns(value, fs, fo) == [ok |-> TRUE, value |-> value, files |-> fs, folders |-> fo]

Throws(message, fs, fo) == [ok |-> FALSE, value |-> message, files |-> fs, folders |-> fo]

\* VaultService.collectFiles: the documents of a folder in the order of
\* folder.children, descending into sub-folders when recursive.
RECURSIVE CollectFiles(_, _, _, _, _)
CollectFiles(fs, fo, folder, recursive, k) ==
    IF k > Len(fo[folder]) THEN <<>>
    ELSE LET child == Append(folder, fo[folder][k])
         IN  (IF IsTFile(fs, child) THEN <<child>>
              ELSE IF IsTFolder(fo, child) /\ recursive
                   THEN CollectFiles(fs, fo, child, recursive, 1)
                   ELSE <<>>)
             \o CollectFiles(fs, fo, folder, recursive, k + 1)

\* files.slice(0, limit) for an integer limit: a negative limit counts from
\* the end of the array.
SliceTo(found, limit) ==
    LET end == IF limit < 0
               THEN (IF Len(found) + limit < 0 THEN 0 ELSE Len(found) + limit)
               ELSE (IF limit < Len(found) THEN limit ELSE Len(found))
    IN  SubSeq(found, 1, end)

\* VaultService.listFiles
ListFiles(fs, fo, directory, recursive, limit) ==
    LET p     == NormalizePath(directory)
        found == IF IsTFolder(fo, p) THEN CollectFiles(fs, fo, p, recursive, 1) ELSE <<>>
    IN  Returns(Str("files", SliceTo(found, limit)), fs, fo)

\* A readFile that looks the path up as it was given.
ReadFileOfRawPath(fs, fo, path) ==
    IF IsTFile(fs, path) THEN Returns(Str("content", fs[path]), fs, fo)
    ELSE Throws(Str("File not found: ", path), fs, fo)

\* VaultService.readFile
ReadFile(fs, fo, path) ==
    LET p == NormalizePath(path)
    IN  IF IsTFile(fs, p) THEN Returns(Str("content", fs[p]), fs, fo)
        ELSE Throws(Str("File not found: ", path), fs, fo)

\* A saveNote that appends to an existing document instead of overwriting it.
SaveNoteAppends(fs, fo, filename, content) ==
    LET p == NormalizePath(filename)
    IN  IF IsTFile(fs, p)
        THEN Returns(Str("Successfully updated note: ", p),
                     Modify(fs, p, fs[p].text \o content), fo)
        ELSE LET parent  == Parent(p)
                 made    == IF parent # <<>> THEN CreateFolder(fs, fo, parent).folders ELSE fo
                 created == Create(fs, made, p, content)
             IN  IF created.ok
                 THEN Returns(Str("Successfully created note: ", p), created.files, created.folders)
                 ELSE Throws(Str("File already exists.", p), fs, made)

\* VaultService.saveNote
SaveNote(fs, fo, filename, content) ==
    LET p == NormalizePath(filename)
    IN  IF IsTFile(fs, p)
        THEN Returns(Str("Successfully updated note: ", p), Modify(fs, p, content), fo)
        ELSE LET parent  == Parent(p)
                 made    == IF parent # <<>> THEN CreateFolder(fs, fo, parent).folders ELSE fo
                 created == Create(fs, made, p, content)
             IN  IF created.ok
                 THEN Returns(Str("Successfully created note: ", p), created.files, created.folders)
                 ELSE Throws(Str("File already exists.", p), fs, made)

\* VaultService.updateFrontmatter
UpdateFrontmatter(fs, fo, path, key, value) ==
    LET p == NormalizePath(path)
    IN  IF IsTFile(fs, p)
        THEN Returns(Str("Successfully updated frontmatter for ", path),
                     [fs EXCEPT ![p].fm =
                        [k \in DOMAIN @ \cup {key} |-> IF k = key THEN value ELSE @[k]]],
                     fo)
        ELSE Throws(Str("File not found: ", path), fs, fo)

\* f.name.toLowerCase(), on the letters the model draws names from.
ToLowerCase(s) == [i \in 1..Len(s) |-> IF s[i] = "A" THEN "a" ELSE s[i]]

\* VaultService.findFilesByName: the paths of the documents whose name
\* includes the fragment, case-insensitively (the order of vault.getFiles()
\* is not modelled: the value is the set of paths).
FindFilesByName(fs, fo, name) ==
    {p \in DOMAIN fs : Includes(ToLowerCase(BaseName(p)), ToLowerCase(name))}

\* A replaceInNote that tries the decoded variant before the encoded one.
ReplaceInNoteDecodesFirst(fs, fo, path, target, replacement) ==
    LET p == NormalizePath(path)
    IN  IF ~IsTFile(fs, p) THEN Throws(Str("File not found: ", path), fs, fo)
        ELSE LET content == fs[p].text
                 found   == \/ Includes(content, target)
                            \/ Includes(content, EncodeSlashes(target))
                            \/ Includes(content, DecodeSlashes(target))
                 actualTarget ==
                     IF Includes(content, target) THEN target
                     ELSE IF Includes(content, DecodeSlashes(target)) THEN DecodeSlashes(target)
                     ELSE EncodeSlashes(target)
             IN  IF ~found
                 THEN Returns(Str("Target string not found in ", path), fs, fo)
                 ELSE Returns(Str("Successfully replaced content in ", path),
                              [fs EXCEPT ![p].text = JsReplace(content, actualTarget, replacement)],
                              fo)

\* VaultService.replaceInNote
ReplaceInNote(fs, fo, path, target, replacement) ==
    LET p == NormalizePath(path)
    IN  IF ~IsTFile(fs, p) THEN Throws(Str("File not found: ", path), fs, fo)
        ELSE LET content == fs[p].text
                 found   == \/ Includes(content, target)
                            \/ Includes(content, EncodeSlashes(target))
                            \/ Includes(content, DecodeSlashes(target))
                 actualTarget ==
                     IF Includes(content, target) THEN target
                     ELSE IF Includes(content, EncodeSlashes(target)) THEN EncodeSlashes(target)
                     ELSE DecodeSlashes(target)
             IN  IF ~found
                 THEN Returns(Str("Target string not found in ", path), fs, fo)
                 ELSE Returns(Str("Successfully replaced content in ", path),
                              [fs EXCEPT ![p].text = JsReplace(content, actualTarget, replacement)],
                              fo)

\* A deleteNote that removes the document instead of moving it to Trash.
DeleteNoteForGood(fs, fo, path, timestamp) ==
    LET p == NormalizePath(path)
    IN  IF ~IsTFile(fs, p) THEN Throws(Str("File not found: ", path), fs, fo)
        ELSE Returns(Str("Successfully deleted ", path), WithoutDoc(fs, p),
                     [fo EXCEPT ![Parent(p)] = RemoveName(@, BaseName(p))])

\* VaultService.deleteNote; timestamp is new Date().getTime() as one token.
DeleteNote(fs, fo, path, timestamp) ==
    LET p == NormalizePath(path)
    IN  IF ~PathExists(fs, fo, p) THEN Throws(Str("File not found: ", path), fs, fo)
        ELSE LET withTrash == IF PathExists(fs, fo, <<Trash>>) THEN fo
                              ELSE CreateFolder(fs, fo, <<Trash>>).folders
                 fileName  == BaseName(p)
                 ext       == LastDotSegment(fileName)
                 name      == JsReplace(fileName, <<".">> \o ext, <<>>)
                 newPath   == IF PathExists(fs, withTrash, <<Trash, fileName>>)
                              THEN <<Trash, name \o <<"_", timestamp, ".">> \o ext>>
                              ELSE <<Trash, fileName>>
                 moved     == RenameFile(fs, withTrash, p, newPath)
             IN  IF moved.ok
                 THEN Returns(Str("Successfully moved ", <<path, newPath>>),
                              moved.files, moved.folders)
                 ELSE Throws(Str("Destination file already exists!", newPath), fs, withTrash)

\* ------------------------------------------------- GeminiService: inputs

\* const MAX_TURNS = 5
MAX_TURNS == 5

Modes == {"obsidian", "web"}

\* The names of the function declarations of document ('obsidian') mode.
DocumentTools ==
    {"list_files", "read_note", "save_note", "update_frontmatter",
     "find_files_by_name", "replace_in_note", "delete_note"}

\* The declaration list without delete_note.
DeclaredToolsWithoutDelete(mode) ==
    IF mode = "obsidian" THEN DocumentTools \ {"delete_note"} ELSE {"googleSearch"}

\* The tools chat() declares to the provider for a mode: the function
\* declarations in 'obsidian' mode, { googleSearch: {} } otherwise.
DeclaredTools(mode) == IF mode = "obsidian" THEN DocumentTools ELSE {"googleSearch"}

\* One requested function call {name, args}; a field a tool does not read
\* keeps its default.
Call(name, path, text, target, replacement) ==
    [name |-> name, path |-> path, text |-> text,
     target |-> target, replacement |-> replacement]

NoteName == <<"a", ".", "m">>

NotePath == <<NoteName>>

\* A path no document of the chat specification's vault ever has.
MissingPath == <<<<"x">>>>

KeyFile == <<"gemini_api_key.txt">>

ConfigFile == <<"ANTIGRAVITY.md">>

\* The function calls a provider response is drawn from: one per declared
\* document tool (update_frontmatter on a path that does not exist), and one
\* whose name matches no dispatch branch.
CallOptions ==
    {Call("list_files", <<>>, <<>>, <<>>, <<>>),
     Call("read_note", NotePath, <<>>, <<>>, <<>>),
     Call("save_note", NotePath, <<"b">>, <<>>, <<>>),
     Call("update_frontmatter", MissingPath, <<>>, <<>>, <<>>),
     Call("find_files_by_name", <<>>, <<"A">>, <<>>, <<>>),
     Call("replace_in_note", NotePath, <<>>, <<"a">>, <<"b">>),
     Call("delete_note", NotePath, <<>>, <<>>, <<>>),
     Call("web_search", <<>>, <<>>, <<>>, <<>>)}

\* The calls that read, write or remove the note: the ones batches longer
\* than two are drawn from.
CoreCalls == {c \in CallOptions : c.name \in {"read_note", "save_note", "delete_note"}}

\* response.functionCalls(): the batches of at most MaxBatch calls.
Batches ==
    UNION {[1..k -> IF k <= 2 THEN CallOptions ELSE CoreCalls] : k \in 0..MaxBatch}

\* new Date().getTime() within a turn.
Timestamps == {"1"}

\* ----------------------------------------------- GeminiService: dispatch

\* The if/else chain of chat() that dispatches one call by name.
Dispatch(call, fs, fo, timestamp) ==
    IF call.name = "list_files" THEN ListFiles(fs, fo, call.path, TRUE, 100)
    ELSE IF call.name = "read_note" THEN ReadFile(fs, fo, call.path)
    ELSE IF call.name = "save_note" THEN SaveNote(fs, fo, call.path, call.text)
    ELSE IF call.name = "update_frontmatter"
         THEN UpdateFrontmatter(fs, fo, call.path, "k", "v")
    ELSE IF call.name = "find_files_by_name"
         THEN LET found == FindFilesByName(fs, fo, call.text)
              IN  Returns(IF found # {} THEN Str("paths", found)
                          ELSE Str("No files found.", {}), fs, fo)
    ELSE IF call.name = "replace_in_note"
         THEN ReplaceInNote(fs, fo, call.path, call.target, call.replacement)
    ELSE IF call.name = "delete_note" THEN DeleteNote(fs, fo, call.path, timestamp)
    ELSE Returns(Str("Unknown tool: ", call.name), fs, fo)

\* A catch block that feeds the bare message back, without the 'Error: ' prefix.
ToolOutcomeBareMessage(call, fs, fo, timestamp) ==
    LET r == Dispatch(call, fs, fo, timestamp)
    IN  [threw |-> ~r.ok, result |-> r.value, files |-> r.files, folders |-> r.folders]

\* The try/catch around the dispatch: a throw becomes the tool result
\* `Error: ${e.message}`.  threw records that the catch was taken.
ToolOutcome(call, fs, fo, timestamp) ==
    LET r == Dispatch(call, fs, fo, timestamp)
    IN  [threw   |-> ~r.ok,
         result  |-> IF r.ok THEN r.value ELSE Str("Error: ", r.value),
         files   |-> r.files,
         folders |-> r.folders]

\* A loop guard that is off by one.
LoopContinuesInclusive(calls, t) == Len(calls) > 0 /\ t <= MAX_TURNS

\* The guard of the tool-resolution loop.
LoopContinues(calls, t) == Len(calls) > 0 /\ t < MAX_TURNS

\* ------------------------------------- GeminiService: the final response
\* What chat() reads of the response the loop ends with.  A part is
\* [thought, text, other]: "" is an absent (or empty, hence falsy) field and
\* other names the one further field the part carries, if any.

Part(thought, text, other) == [thought |-> thought, text |-> text, other |-> other]

TextPart(text) == Part("", text, "none")

PartLists ==
    {<<>>,
     <<TextPart("hello")>>,
     <<TextPart("")>>,
     <<Part("plan", "", "none")>>,
     <<Part("plan", "", "none"), TextPart("hello")>>,
     <<Part("", "", "inlineData"), TextPart("hello")>>,
     <<Part("", "", "executableCode"), Part("", "", "codeExecutionResult")>>,
     <<TextPart("hello"), Part("plan", "", "none"), Part("", "", "executableCode")>>}

FinishReasons == {"STOP", "SAFETY", "RECITATION", "OTHER"}

\* shape: whether candidates[0], its content and the parts of the content exist.
Response(shape, parts, finishReason) ==
    [shape |-> shape, parts |-> parts, finishReason |-> finishReason]

\* The value of the response variable while no final response has been read.
NoResponse == Response("none", <<>>, "")

\* The usage metadata of a response: "camel" when response.usageMetadata is
\* set, "snake" when only response.usage_metadata is, "none" otherwise.
Usages == {"none", "camel", "snake"}

FinalResponses ==
    {Response("noCandidates", <<>>, "")}
    \cup {Response(sh, <<>>, fr) : sh \in {"noContent", "noParts"}, fr \in FinishReasons}
    \cup {Response("parts", ps, fr) : ps \in PartLists, fr \in FinishReasons}

\* The pending function calls of a response are parts of it too; they carry
\* neither thought nor text.
CallParts(calls) == [i \in 1..Len(calls) |-> Part("", "", "functionCall")]

\* The loop over candidate.content.parts: the thoughts collected.
RECURSIVE Thoughts(_)
Thoughts(parts) ==
    IF parts = <<>> THEN <<>>
    ELSE (IF parts[1].thought # "" THEN <<parts[1].thought, "\n">> ELSE <<>>)
         \o Thoughts(Tail(parts))

\* The loop over candidate.content.parts: the pieces appended to finalOutput.
RECURSIVE Body(_)
Body(parts) ==
    IF parts = <<>> THEN <<>>
    ELSE LET part == parts[1]
         IN  (IF part.thought # "" THEN <<>>
              ELSE IF part.text # "" THEN <<Str("text", part.text)>>
              ELSE IF part.other = "inlineData" THEN <<Str("image", "inlineData")>>
              ELSE IF part.other = "executableCode" THEN <<Str("code", "executableCode")>>
              ELSE IF part.other = "codeExecutionResult"
                   THEN <<Str("output", "codeExecutionResult")>>
              ELSE <<>>)
             \o Body(Tail(parts))

\* An extraction that puts the thoughts after the body.
FinalOutputThoughtsLast(parts, deepThink) ==
    IF Thoughts(parts) # <<>>
    THEN Body(parts) \o <<Str("details", Thoughts(parts))>>
    ELSE IF deepThink THEN Body(parts) \o <<Str("note", "")>>
    ELSE Body(parts)

\* The try block of the extraction: the final output, <<>> when it is the
\* empty string.
FinalOutput(parts, deepThink) ==
    IF Thoughts(parts) # <<>>
    THEN <<Str("details", Thoughts(parts))>> \o Body(parts)
    ELSE IF deepThink THEN Body(parts) \o <<Str("note", "")>>
    ELSE Body(parts)

SafetyMessage == "Response blocked by safety filters. Please try a different prompt."

RecitationMessage == "Response blocked due to recitation check."

OtherMessage == "Response blocked for unknown reasons (finishReason: OTHER)."

NoResponseMessage ==
    "Error: No response received from the model. It might be blocked or encountered an error."

\* The catch block of the extraction.
BlockMessage(resp) ==
    IF resp.shape # "noCandidates" /\ resp.finishReason = "SAFETY" THEN SafetyMessage
    ELSE IF resp.shape # "noCandidates" /\ resp.finishReason = "RECITATION"
         THEN RecitationMessage
    ELSE IF resp.shape # "noCandidates" /\ resp.finishReason = "OTHER" THEN OtherMessage
    ELSE NoResponseMessage

\* The response the loop ended with, as chat() reads it: the content drawn
\* for it, and a function-call part for each call it still requests.
LastResponse(resp, calls) == [resp EXCEPT !.parts = @ \o CallParts(calls)]

\* The text chat() returns for the response the loop ended with.
ExtractText(resp, deepThink) ==
    IF resp.shape # "parts" \/ FinalOutput(resp.parts, deepThink) = <<>>
    THEN Str(BlockMessage(resp), <<>>)
    ELSE Str("finalOutput", FinalOutput(resp.parts, deepThink))

\* A report that does not look whether the callback was passed.
ReportedAlways(usage, onMetadata) == usage

\* What onMetadata is called with, "none" when it is not called.
ReportedUsage(usage, onMetadata) == IF onMetadata THEN usage ELSE "none"

\* ------------------------------------------------------------------ state

VARIABLES
    files,              \* the vault: path of each document |-> [fm, text]
    folders,            \* the vault: path of each folder |-> names of its children
    genAI,              \* GeminiService.genAI is set (the API key was loaded)
    pc,                 \* where the chat() call stands
    opts,               \* the arguments of the chat() call
    tools,              \* the tools declared to the provider by this call
    turns,              \* let turns
    sends,              \* chat.sendMessage calls made by this call
    functionCalls,      \* let functionCalls
    idx,                \* position of the for loop in functionCalls
    functionResponses,  \* const functionResponses of the round
    threwAt,            \* positions of the round whose dispatch threw
    response,           \* what was read of the final response
    metadata,           \* the usage onMetadata was called with
    outcome,            \* how the chat() call settled
    ops,                \* VaultService calls made (vault specifications)
    last,               \* the latest VaultService call and its outcome
    clients,            \* AnthropicService.anthropic / ChatGPTService.openai are set
    turn,               \* the latest call of a provider adapter and what it did
    ui                  \* AIChat: the message list and the submit in flight

vars ==
    <<files, folders, genAI, pc, opts, tools, turns, sends, functionCalls, idx,
      functionResponses, threwAt, response, metadata, outcome, ops, last,
      clients, turn, ui>>

vaultVars == <<files, folders>>

chatVars ==
    <<genAI, pc, opts, tools, turns, sends, functionCalls, idx,
      functionResponses, threwAt, response, metadata, outcome>>

callVars == <<ops, last>>

adapterVars == <<clients, turn, ui>>

Options(mode, observer, deepThink, onMetadata) ==
    [mode |-> mode, observer |-> observer, deepThink |-> deepThink,
     onMetadata |-> onMetadata]

Pending == [kind |-> "pending", text |-> Str("", <<>>)]

Resolved(text) == [kind |-> "resolved", text |-> text]

Rejected(message) == [kind |-> "rejected", text |-> Str(message, <<>>)]

\* A VaultService call and how it ended; again: the call before it was the
\* same operation with the same arguments.
Called(op, path, text, target, replacement, result, again) ==
    [op |-> op, path |-> path, text |-> text, target |-> target,
     replacement |-> replacement, ok |-> result.ok, value |-> result.value,
     again |-> again]

NoCall == [op |-> "none", path |-> <<>>, text |-> <<>>, target |-> <<>>,
           replacement |-> <<>>, ok |-> TRUE, value |-> Str("", <<>>),
           again |-> FALSE]

\* A vault holding one note, with or without the API key document.
NoteOnly == [p \in {NotePath} |-> NewDoc(<<"a">>)]

WithKey == WithDoc(NoteOnly, <<KeyFile>>, NewDoc(<<"k">>))

ChatIdle ==
    /\ genAI = FALSE
    /\ pc = "idle"
    /\ opts = Options("obsidian", FALSE, FALSE, FALSE)
    /\ tools = {}
    /\ turns = 0
    /\ sends = 0
    /\ functionCalls = <<>>
    /\ idx = 0
    /\ functionResponses = <<>>
    /\ threwAt = {}
    /\ response = NoResponse
    /\ metadata = "none"
    /\ outcome = Pending

\* The adapters that keep their client in a field of their own.
OtherProviders == {"anthropic", "chatgpt"}

Providers == {"gemini"} \cup OtherProviders

\* No request was sent to the provider.
NoRequest == [history |-> <<>>, prompt |-> <<>>]

\* A call of a provider adapter: its arguments, whether the credential
\* document existed and the client was set when it was made, how the call of
\* the same adapter before it ended (prior), the request sent, the number of
\* provider requests, whether a web search ran, what the provider answered
\* ("none" when it was not asked), and how the call settled.
AdapterCall(op, provider, args, keyed, wasSet, prior, did) ==
    [op |-> op, provider |-> provider, args |-> args, keyed |-> keyed,
     wasSet |-> wasSet, prior |-> prior, request |-> did.request,
     sent |-> did.sent, searched |-> did.searched, search |-> did.search,
     answer |-> did.answer, outcome |-> did.outcome]

NoArgs == [history |-> <<>>, context |-> <<>>, prompt |-> <<>>, mode |-> "obsidian"]

\* No TavilyService.search call: calls counts the calls of search, requests
\* the fetches they made, result is the text the call resolved to.
NoSearch == [calls |-> 0, requests |-> 0, result |-> <<>>]

Did(settled, request, sent, searched, answered) ==
    [outcome |-> settled, request |-> request, sent |-> sent, searched |-> searched,
     search |-> NoSearch, answer |-> answered]

NoTurn == AdapterCall("none", "gemini", NoArgs, FALSE, FALSE, "none",
                      Did(Pending, NoRequest, 0, FALSE, "none"))

\* AIChat after mounting: no message, no input, no submit in flight.
NoJob == [mode |-> "obsidian", gem |-> FALSE, context |-> <<>>, history |-> <<>>]

UiIdle == [messages |-> <<>>, pc |-> "idle", submits |-> 0, escaped |-> FALSE,
           job |-> NoJob]

\* The adapters and the chat view after construction.
AdaptersIdle ==
    /\ clients = [p \in OtherProviders |-> FALSE]
    /\ turn = NoTurn
    /\ ui = UiIdle

Init ==
    /\ AdaptersIdle
    /\ \/ files = WithKey /\ folders = [p \in {<<>>} |-> <<KeyFile, NoteName>>]
       \/ files = NoteOnly /\ folders = [p \in {<<>>} |-> <<NoteName>>]
    /\ ChatIdle
    /\ ops = 0
    /\ last = NoCall

\* --------------------------------------------------- GeminiService.chat

\* GeminiService.initialize, as chat() uses it: genAI is set when the key
\* document exists.
Initialize(fs) == IsTFile(fs, <<KeyFile>>)

\* chat() up to the first sendMessage: lazy initialization, then the tools and
\* the model configuration of the mode.  The caller passes both callbacks,
\* onToolExecution and onMetadata, as AIChat.handleSubmit does, or neither.
StartChat(mode, callbacks, deepThink) ==
    /\ pc = "idle"
    /\ genAI' = (genAI \/ Initialize(files))
    /\ opts' = Options(mode, callbacks, deepThink, callbacks)
    /\ IF genAI'
       THEN /\ pc' = "send"
            /\ tools' = DeclaredTools(mode)
            /\ outcome' = Pending
       ELSE /\ pc' = "rejected"
            /\ tools' = {}
            /\ outcome' = Rejected("API Key not found")
    /\ turns' = 0
    /\ sends' = 0
    /\ functionCalls' = <<>>
    /\ idx' = 0
    /\ functionResponses' = <<>>
    /\ threwAt' = {}
    /\ response' = NoResponse
    /\ metadata' = "none"
    /\ UNCHANGED <<vaultVars, callVars, adapterVars>>

\* chat() is left: its local variables are gone.
Leave ==
    /\ functionCalls' = <<>>
    /\ idx' = 0
    /\ functionResponses' = <<>>
    /\ threwAt' = {}

\* chat.sendMessage rejects (a network or vendor error): chat() has no
\* handler around it and rejects too.
SendFails ==
    /\ pc = "send"
    /\ sends' = sends + 1
    /\ pc' = "rejected"
    /\ outcome' = Rejected("provider error")
    /\ Leave
    /\ UNCHANGED <<vaultVars, callVars, adapterVars, genAI, opts, tools, turns, response, metadata>>

\* chat.sendMessage resolves: the prompt (first send) or the function
\* responses of the round are sent, the response's function calls are read
\* and the loop guard is evaluated.
SendMessage(batch) ==
    /\ pc = "send"
    /\ sends' = sends + 1
    /\ functionCalls' = batch
    /\ functionResponses' = <<>>
    /\ threwAt' = {}
    /\ IF LoopContinues(batch, turns)
       THEN /\ turns' = turns + 1
            /\ idx' = 1
            /\ pc' = "dispatch"
       ELSE /\ turns' = turns
            /\ idx' = 0
            /\ pc' = "extract"
    /\ UNCHANGED <<vaultVars, callVars, adapterVars, genAI, opts, tools, response, metadata, outcome>>

\* onToolExecution throws: it is called outside the try block, so chat()
\* rejects before the call is dispatched.
ObserverThrows ==
    /\ pc = "dispatch"
    /\ opts.observer
    /\ pc' = "rejected"
    /\ outcome' = Rejected("observer error")
    /\ Leave
    /\ UNCHANGED <<vaultVars, callVars, adapterVars, genAI, opts, tools, turns, sends, response, metadata>>

\* A push that is skipped for a call that failed.
PushResponseUnlessError(responses, name, result) ==
    IF result.text = "Error: " THEN responses
    ELSE Append(responses, [name |-> name, result |-> result])

\* functionResponses.push({ functionResponse: { name, response: { result } } })
PushResponse(responses, name, result) ==
    Append(responses, [name |-> name, result |-> result])

\* A loop that takes the calls of the batch from the last to the first.
IterationReversed(timestamp) ==
    ToolOutcome(functionCalls[Len(functionCalls) + 1 - idx], files, folders, timestamp)

\* What one iteration of the for loop yields for the call at idx.
Iteration(timestamp) == ToolOutcome(functionCalls[idx], files, folders, timestamp)

\* One iteration of the for loop: notify, dispatch, push the function response.
DispatchCall(timestamp) ==
    /\ pc = "dispatch"
    /\ LET out == Iteration(timestamp)
       IN  /\ files' = out.files
           /\ folders' = out.folders
           /\ functionResponses' =
                PushResponse(functionResponses, functionCalls[idx].name, out.result)
           /\ threwAt' = IF out.threw THEN threwAt \cup {idx} ELSE threwAt
    /\ idx' = idx + 1
    /\ pc' = IF idx >= Len(functionCalls) THEN "send" ELSE "dispatch"
    /\ UNCHANGED <<callVars, adapterVars, genAI, opts, tools, turns, sends, functionCalls,
                   response, metadata, outcome>>

\* An exit that raises a loop-limit error when calls are still pending.
ExtractOrRaise(resp, usage) ==
    /\ pc = "extract"
    /\ functionCalls # <<>> => resp.shape = "parts"
    /\ response' = LastResponse(resp, functionCalls)
    /\ metadata' = ReportedUsage(usage, opts.onMetadata)
    /\ IF functionCalls # <<>>
       THEN pc' = "rejected" /\ outcome' = Rejected("Too many tool calls")
       ELSE pc' = "done" /\ outcome' = Resolved(ExtractText(response', opts.deepThink))
    /\ Leave
    /\ UNCHANGED <<vaultVars, callVars, adapterVars, genAI, opts, tools, turns, sends>>

\* An exit that asks the provider once more before it extracts.
ExtractAfterResend(resp, usage) ==
    /\ pc = "extract"
    /\ functionCalls # <<>> => resp.shape = "parts"
    /\ response' = LastResponse(resp, functionCalls)
    /\ metadata' = ReportedUsage(usage, opts.onMetadata)
    /\ outcome' = Resolved(ExtractText(response', opts.deepThink))
    /\ pc' = "done"
    /\ sends' = sends + 1
    /\ Leave
    /\ UNCHANGED <<vaultVars, callVars, adapterVars, genAI, opts, tools, turns>>

\* After the loop: the usage metadata is reported and the final output is
\* extracted from the last response, whose content is read here; chat()
\* returns.
Extract(resp, usage) ==
    /\ pc = "extract"
    /\ functionCalls # <<>> => resp.shape = "parts"
    /\ response' = LastResponse(resp, functionCalls)
    /\ metadata' = ReportedUsage(usage, opts.onMetadata)
    /\ outcome' = Resolved(ExtractText(response', opts.deepThink))
    /\ pc' = "done"
    /\ Leave
    /\ UNCHANGED <<vaultVars, callVars, adapterVars, genAI, opts, tools, turns, sends>>

Next ==
    \/ pc = "idle" /\ \E mode \in Modes, callbacks \in BOOLEAN, deepThink \in BOOLEAN :
                        StartChat(mode, callbacks, deepThink)
    \/ SendFails
    \/ pc = "send" /\ \E batch \in Batches : SendMessage(batch)
    \/ ObserverThrows
    \/ pc = "dispatch" /\ \E timestamp \in Timestamps : DispatchCall(timestamp)
    \/ pc = "extract" /\ \E resp \in FinalResponses, usage \in Usages : Extract(resp, usage)

Spec == Init /\ [][Next]_vars

\* ------------------------------------------- VaultService, called directly
\* The document store under sequences of saveNote and deleteNote calls.

FolderName == <<"d">>

PlainName == <<"n">>

\* a.m and d/a.m, no Trash folder.
VaultA ==
    [files   |-> WithDoc(NoteOnly, <<FolderName, NoteName>>, NewDoc(<<"b">>)),
     folders |-> [p \in {<<>>, <<FolderName>>} |->
                    IF p = <<>> THEN <<NoteName, FolderName>> ELSE <<NoteName>>]]

\* VaultA, a document without extension, and a Trash folder that holds a
\* document named a.m already.
VaultB ==
    [files   |-> WithDoc(WithDoc(VaultA.files, <<PlainName>>, NewDoc(<<"n">>)),
                         <<Trash, NoteName>>, NewDoc(<<"t">>)),
     folders |-> [p \in {<<>>, <<FolderName>>, <<Trash>>} |->
                    IF p = <<>> THEN <<NoteName, FolderName, PlainName, Trash>>
                    ELSE <<NoteName>>]]

VaultInit ==
    /\ AdaptersIdle
    /\ \E v \in {VaultA, VaultB} : files = v.files /\ folders = v.folders
    /\ ChatIdle
    /\ ops = 0
    /\ last = NoCall

\* The paths deleteNote is called with: documents at the root, in a folder and
\* in Trash, one with a leading slash, one without extension, a missing one.
DeletePaths ==
    {NotePath, <<FolderName, NoteName>>, <<Trash, NoteName>>, <<<<>>, NoteName>>,
     <<PlainName>>, MissingPath}

\* The paths saveNote is called with: an existing document, a new document
\* in a new folder, a folder.
SavePaths == {NotePath, <<<<"e">>, NoteName>>, <<FolderName>>}

SaveTexts == {<<"a">>, <<"b">>}

VaultTimestamps == {"1", "2"}

SameCall(op, path, text) == last.op = op /\ last.path = path /\ last.text = text

VaultSave(path, text) ==
    /\ ops < MaxOps
    /\ LET r == SaveNote(files, folders, path, text)
       IN  /\ files' = r.files
           /\ folders' = r.folders
           /\ last' = Called("save", path, text, <<>>, <<>>, r, SameCall("save", path, text))
    /\ ops' = ops + 1
    /\ UNCHANGED <<chatVars, adapterVars>>

VaultDelete(path, timestamp) ==
    /\ ops < MaxOps
    /\ LET r == DeleteNote(files, folders, path, timestamp)
       IN  /\ files' = r.files
           /\ folders' = r.folders
           /\ last' = Called("delete", path, <<>>, <<>>, <<>>, r, SameCall("delete", path, <<>>))
    /\ ops' = ops + 1
    /\ UNCHANGED <<chatVars, adapterVars>>

VaultNext ==
    \/ \E path \in SavePaths, text \in SaveTexts : VaultSave(path, text)
    \/ \E path \in DeletePaths, timestamp \in VaultTimestamps : VaultDelete(path, timestamp)

VaultSpec == VaultInit /\ [][VaultNext]_vars

\* ------------------------------------------------ save, then replace
\* saveNote(path, content) followed by replaceInNote(path, target,
\* replacement), for every content, target and replacement within the bounds.

ContentChars == {"a", "b"}

ReplacementChars == {"a", "b", "c", "$", "&"}

RoundTripInit ==
    /\ AdaptersIdle
    /\ \/ files = NoteOnly /\ folders = [p \in {<<>>} |-> <<NoteName>>]
       \/ files = <<>> /\ folders = [p \in {<<>>} |-> <<>>]
    /\ ChatIdle
    /\ ops = 0
    /\ last = NoCall

RoundTripSave(content) ==
    /\ ops = 0
    /\ LET r == SaveNote(files, folders, NotePath, content)
       IN  /\ files' = r.files
           /\ folders' = r.folders
           /\ last' = Called("save", NotePath, content, <<>>, <<>>, r, FALSE)
    /\ ops' = 1
    /\ UNCHANGED <<chatVars, adapterVars>>

RoundTripReplace(target, replacement) ==
    /\ ops = 1
    /\ LET r == ReplaceInNote(files, folders, NotePath, target, replacement)
       IN  /\ files' = r.files
           /\ folders' = r.folders
           /\ last' = Called("replace", NotePath, <<>>, target, replacement, r, FALSE)
    /\ ops' = 2
    /\ UNCHANGED <<chatVars, adapterVars>>

RoundTripNext ==
    \/ \E content \in StringsUpTo(ContentChars, MaxContentLen) : RoundTripSave(content)
    \/ \E target \in StringsUpTo(ContentChars, MaxTargetLen),
          replacement \in StringsUpTo(ReplacementChars, MaxTargetLen) :
          RoundTripReplace(target, replacement)

RoundTripSpec == RoundTripInit /\ [][RoundTripNext]_vars

\* ------------------------------------------- replace_in_note, dispatched
\* The replace_in_note tool as the loop of chat() runs it: the call is
\* dispatched to VaultService.replaceInNote and its result is pushed as the
\* function response.  The contents and targets hold '/' and '%2F'.

ReplaceContents ==
    {<<"a", "b">>,
     <<"a", "/", "b">>,
     <<"a", "%", "2", "F", "b">>,
     <<"a", "/", "b", "%", "2", "F">>,
     <<"%", "2", "F", "%", "2", "F", "/", "/">>}

ReplaceTargets ==
    {<<>>, <<"a">>, <<"x">>, <<"/">>, <<"%", "2", "F">>, <<"a", "/", "b">>,
     <<"a", "%", "2", "F", "b">>, <<"/", "%", "2", "F">>, <<"b", "/">>}

Replacements == {<<>>, <<"c">>}

ReplaceInit ==
    /\ AdaptersIdle
    /\ \E content \in ReplaceContents : files = [p \in {NotePath} |-> NewDoc(content)]
    /\ folders = [p \in {<<>>} |-> <<NoteName>>]
    /\ ChatIdle
    /\ ops = 0
    /\ last = NoCall

\* One iteration of the for loop of chat() for a replace_in_note call.
ReplaceTool(path, target, replacement) ==
    /\ ops < MaxReplaces
    /\ LET call == Call("replace_in_note", path, <<>>, target, replacement)
           out  == ToolOutcome(call, files, folders, "1")
       IN  /\ files' = out.files
           /\ folders' = out.folders
           /\ functionResponses' = PushResponse(<<>>, call.name, out.result)
           /\ threwAt' = IF out.threw THEN {1} ELSE {}
           /\ last' = Called("replace", path, <<>>, target, replacement,
                             Dispatch(call, files, folders, "1"), FALSE)
    /\ ops' = ops + 1
    /\ UNCHANGED <<adapterVars, genAI, pc, opts, tools, turns, sends, functionCalls, idx,
                   response, metadata, outcome>>

ReplaceNext ==
    \E path \in {NotePath, MissingPath}, target \in ReplaceTargets,
       replacement \in Replacements : ReplaceTool(path, target, replacement)

ReplaceSpec == ReplaceInit /\ [][ReplaceNext]_vars

\* ------------------------------------------------------- listFiles
\* VaultService.listFiles on a vault with nested folders, for the
\* directories, the recursive flags and the limits a list_files call can
\* carry (limit is declared as a NUMBER, without a range).

SubFolder == <<"e">>

\* a.m, d/ (a.m, e/ (a.m), n), n
ListVaultA ==
    [files   |-> [p \in {<<NoteName>>, <<PlainName>>, <<FolderName, NoteName>>,
                         <<FolderName, PlainName>>, <<FolderName, SubFolder, NoteName>>}
                    |-> NewDoc(<<"a">>)],
     folders |-> [p \in {<<>>, <<FolderName>>, <<FolderName, SubFolder>>} |->
                    IF p = <<>> THEN <<NoteName, FolderName, PlainName>>
                    ELSE IF p = <<FolderName>> THEN <<NoteName, SubFolder, PlainName>>
                    ELSE <<NoteName>>]]

\* d/ (e/ (), n), a.m
ListVaultB ==
    [files   |-> [p \in {<<NoteName>>, <<FolderName, PlainName>>} |-> NewDoc(<<"b">>)],
     folders |-> [p \in {<<>>, <<FolderName>>, <<FolderName, SubFolder>>} |->
                    IF p = <<>> THEN <<FolderName, NoteName>>
                    ELSE IF p = <<FolderName>> THEN <<SubFolder, PlainName>>
                    ELSE <<>>]]

\* The directories: the root (the default '/'), a folder, a nested folder, a
\* document, a path that does not exist.
ListDirectories ==
    {<<>>, <<FolderName>>, <<FolderName, SubFolder>>, <<NoteName>>, MissingPath}

\* The limits: the default and small integers on both sides of zero.
Limits == {100, 3, 2, 1, 0, -1, -2}

Listed(directory, recursive, limit, result) ==
    [op |-> "list", path |-> directory, recursive |-> recursive, limit |-> limit,
     ok |-> result.ok, value |-> result.value]

ListInit ==
    /\ AdaptersIdle
    /\ \E v \in {ListVaultA, ListVaultB} : files = v.files /\ folders = v.folders
    /\ ChatIdle
    /\ ops = 0
    /\ last = NoCall

ListTool(directory, recursive, limit) ==
    /\ LET r == ListFiles(files, folders, directory, recursive, limit)
       IN  /\ files' = r.files
           /\ folders' = r.folders
           /\ last' = Listed(directory, recursive, limit, r)
    /\ UNCHANGED <<chatVars, adapterVars, ops>>

ListNext ==
    \E directory \in ListDirectories, recursive \in BOOLEAN, limit \in Limits :
        ListTool(directory, recursive, limit)

ListSpec == ListInit /\ [][ListNext]_vars

\* ------------------------------------------------ saveNote and readFile
\* Sequences of saveNote and readFile calls on the vaults of the vault
\* specification.

\* The paths: an existing document at the root (also with a leading slash) and
\* in a folder, a new document in an existing folder and in a new one, a
\* folder, a path below a document, a path that does not exist.
SaveReadPaths ==
    {NotePath, <<<<>>, NoteName>>, <<FolderName, NoteName>>, <<FolderName, PlainName>>,
     <<SubFolder, NoteName>>, <<FolderName>>, <<NoteName, PlainName>>, MissingPath}

VaultRead(path) ==
    /\ ops < MaxOps
    /\ LET r == ReadFile(files, folders, path)
       IN  /\ files' = r.files
           /\ folders' = r.folders
           /\ last' = Called("read", path, <<>>, <<>>, <<>>, r, SameCall("read", path, <<>>))
    /\ ops' = ops + 1
    /\ UNCHANGED <<chatVars, adapterVars>>

SaveReadNext ==
    \/ \E path \in SaveReadPaths, text \in SaveTexts : VaultSave(path, text)
    \/ \E path \in SaveReadPaths : VaultRead(path)

SaveReadSpec == VaultInit /\ [][SaveReadNext]_vars

\* ------------------------------------------------- the provider adapters
\* GeminiService, AnthropicService and ChatGPTService at the granularity of
\* one call: lazy initialization, the request built from the history, the
\* context and the prompt, and the one provider request of a turn whose
\* response asks for no tool.  A text is the sequence of its pieces.

TavilyKeyFile == <<"tavily_api_key.txt">>

\* The credential document of an adapter.
KeyFileOf(provider) ==
    CASE provider = "gemini" -> KeyFile
      [] provider = "anthropic" -> <<"anthropic_api_key.txt">>
      [] provider = "chatgpt" -> <<"chatgpt_api_key.txt">>

KeyFiles == {KeyFileOf(p) : p \in Providers} \cup {TavilyKeyFile}

\* The error chat() throws when the client is still unset after initialize().
CredentialMessage(provider) ==
    CASE provider = "gemini" -> "API Key not found"
      [] provider = "anthropic" ->
           "Anthropic API Key not found. Please create anthropic_api_key.txt in your vault root."
      [] provider = "chatgpt" ->
           "ChatGPT API Key not found. Please create chatgpt_api_key.txt in your vault root."

\* this.genAI / this.anthropic / this.openai is set.
ClientSet(provider, gen, others) == IF provider = "gemini" THEN gen ELSE others[provider]

\* A chat() that relies on the client set at construction and never
\* initializes lazily.
ClientNeverRetried(provider, gen, others, fs) == ClientSet(provider, gen, others)

\* if (!client) await this.initialize(): the client after it.
ClientAfterInit(provider, gen, others, fs) ==
    ClientSet(provider, gen, others) \/ IsTFile(fs, <<KeyFileOf(provider)>>)

User(text) == [role |-> "user", text |-> text]

Model(text) == [role |-> "model", text |-> text]

\* The histories chat() is called with: empty, starting with a user turn,
\* starting with a model turn.
Histories ==
    {<<>>, <<User(<<"h">>)>>, <<User(<<"h">>), Model(<<"g">>)>>,
     <<Model(<<"g">>), User(<<"h">>)>>}

\* context: null (or the empty string, equally falsy), or a text.
Contexts == {<<>>, <<"c">>}

ThePrompt == <<"p">>

\* `Context:\n${context}\n\nUser Request: ${text}`
WithContext(context, text) ==
    <<"Context:\n">> \o context \o <<"\n\nUser Request: ">> \o text

\* GeminiService.chat: the history passed to startChat.
GeminiHistory(history, context) ==
    [i \in 1..Len(history) |->
        [role |-> history[i].role,
         text |-> IF i = 1 /\ context # <<>> /\ history[1].role = "user"
                  THEN WithContext(context, history[1].text)
                  ELSE history[i].text]]

\* GeminiService.chat: finalPrompt (without attachments).
GeminiPrompt(history, context, prompt) ==
    IF context # <<>> /\ Len(history) = 0 THEN WithContext(context, prompt) ELSE prompt

\* AnthropicService.chat / ChatGPTService.chat: the messages mapped from the
\* history.
AssistantHistory(history) ==
    [i \in 1..Len(history) |->
        [role |-> IF history[i].role = "model" THEN "assistant" ELSE "user",
         text |-> history[i].text]]

\* TavilyService.search: the text it resolves to.
TavilySearch(keyed, fetched) ==
    IF ~keyed THEN <<"Error: Tavily API Key missing.">>
    ELSE IF fetched = "fails" THEN <<"Error searching web: ", "m">>
    ELSE <<"Search Results:\n", "r">>

\* TavilyService.search: the fetches it makes.
TavilyRequests(keyed) == IF keyed THEN 1 ELSE 0

\* AnthropicService.chat / ChatGPTService.chat: finalPrompt.
AssistantPrompt(context, searchContext, prompt) ==
    LET fullContext ==
            (IF context # <<>> THEN <<"File Context:\n">> \o context \o <<"\n">> ELSE <<>>)
            \o searchContext
    IN  IF fullContext # <<>> THEN WithContext(fullContext, prompt) ELSE prompt

\* What the one provider request of the turn yields: a text, a response
\* without text, or an error of the network or the vendor.
Answers == {"text", "empty", "error"}

NoTextMessage(provider) ==
    IF provider = "anthropic" THEN "Error: No text response from Claude."
    ELSE "Error: No text response from ChatGPT."

\* The response of the Gemini provider for an answer.
GeminiAnswer(answer) ==
    IF answer = "text" THEN Response("parts", <<TextPart("hello")>>, "STOP")
    ELSE Response("noCandidates", <<>>, "")

\* A chat() that leaves a search that ended in an error out of the request.
AssistantChatDropsFailedSearch(provider, args, tavilyKeyed, fetched, answer) ==
    LET searched      == args.mode = "web"
        search        == IF searched
                         THEN [calls |-> 1, requests |-> TavilyRequests(tavilyKeyed),
                               result |-> TavilySearch(tavilyKeyed, fetched)]
                         ELSE NoSearch
        searchContext == IF searched /\ tavilyKeyed /\ fetched # "fails"
                         THEN <<"\n\nWeb Search Results:\n">> \o search.result \o <<"\n\n">>
                         ELSE <<>>
        request       == [history |-> AssistantHistory(args.history),
                          prompt  |-> AssistantPrompt(args.context, searchContext, args.prompt)]
        settled       == CASE answer = "text" -> Resolved(Str("response", <<"hello">>))
                           [] answer = "empty" -> Resolved(Str(NoTextMessage(provider), <<>>))
                           [] answer = "error" -> Resolved(Str("Error: ", <<"provider error">>))
    IN  [Did(settled, request, 1, searched, answer) EXCEPT !.search = search]

\* chat() of the two adapters without tools, after the credential check: the
\* web search in web mode, the request, and the one provider request inside
\* the try block.
AssistantChat(provider, args, tavilyKeyed, fetched, answer) ==
    LET searched      == args.mode = "web"
        search        == IF searched
                         THEN [calls |-> 1, requests |-> TavilyRequests(tavilyKeyed),
                               result |-> TavilySearch(tavilyKeyed, fetched)]
                         ELSE NoSearch
        searchContext == IF searched
                         THEN <<"\n\nWeb Search Results:\n">> \o search.result \o <<"\n\n">>
                         ELSE <<>>
        request       == [history |-> AssistantHistory(args.history),
                          prompt  |-> AssistantPrompt(args.context, searchContext, args.prompt)]
        settled       == CASE answer = "text" -> Resolved(Str("response", <<"hello">>))
                           [] answer = "empty" -> Resolved(Str(NoTextMessage(provider), <<>>))
                           [] answer = "error" -> Resolved(Str("Error: ", <<"provider error">>))
    IN  [Did(settled, request, 1, searched, answer) EXCEPT !.search = search]

\* GeminiService.chat after the credential check, for a first response that
\* requests no tool: the request, the send (outside any try block) and the
\* extraction.
GeminiChat(args, answer) ==
    LET request == [history |-> GeminiHistory(args.history, args.context),
                    prompt  |-> GeminiPrompt(args.history, args.context, args.prompt)]
    IN  Did(IF answer = "error" THEN Rejected("provider error")
            ELSE Resolved(ExtractText(GeminiAnswer(answer), FALSE)),
            request, 1, FALSE, answer)

\* A chat() that runs the web search before it looks at the credential.
ChatCallSearchesFirst(provider, client, args, tavilyKeyed, fetched, answer) ==
    IF ~client
    THEN Did(Rejected(CredentialMessage(provider)), NoRequest, 0,
             provider # "gemini" /\ args.mode = "web", "none")
    ELSE IF provider = "gemini" THEN GeminiChat(args, answer)
    ELSE AssistantChat(provider, args, tavilyKeyed, fetched, answer)

\* chat() of an adapter, client being the client after the lazy
\* initialization: the credential check, then the turn.
ChatCall(provider, client, args, tavilyKeyed, fetched, answer) ==
    IF ~client THEN Did(Rejected(CredentialMessage(provider)), NoRequest, 0, FALSE, "none")
    ELSE IF provider = "gemini" THEN GeminiChat(args, answer)
    ELSE AssistantChat(provider, args, tavilyKeyed, fetched, answer)

\* getModels() of an adapter, keyed being whether apiKey is set after the
\* lazy initialization: the list it resolves to.
ModelsCall(provider, keyed, fetched) ==
    CASE provider = "gemini" ->
            IF ~keyed THEN "empty" ELSE IF fetched = "fails" THEN "fallback" ELSE "fetched"
      [] provider = "anthropic" -> IF ~keyed THEN "empty" ELSE "fixed"
      [] provider = "chatgpt" -> "fixed"

\* How a call of an adapter ended, as the next call of that adapter sees it.
EndedAs(call, provider) ==
    IF call.op # "chat" \/ call.provider # provider THEN "none"
    ELSE IF call.outcome.kind = "rejected" \/ call.outcome.text.text = "Error: " THEN "failed"
    ELSE "ok"

\* The user creates a credential document in the vault root.
PutKey(name) ==
    /\ ~PathExists(files, folders, <<name>>)
    /\ files' = WithDoc(files, <<name>>, NewDoc(<<"k">>))
    /\ folders' = [folders EXCEPT ![<<>>] = Append(@, name)]
    /\ UNCHANGED <<chatVars, callVars, adapterVars>>

\* The client fields after a call that initialized lazily.
SetClient(provider, client) ==
    /\ genAI' = IF provider = "gemini" THEN client ELSE genAI
    /\ clients' = IF provider = "gemini" THEN clients
                  ELSE [clients EXCEPT ![provider] = client]

\* One chat() call of an adapter.
AdapterChat(provider, history, context, mode, fetched, answer) ==
    LET client == ClientAfterInit(provider, genAI, clients, files)
        args   == [history |-> history, context |-> context, prompt |-> ThePrompt,
                   mode |-> mode]
        did    == ChatCall(provider, client, args, IsTFile(files, <<TavilyKeyFile>>),
                           fetched, answer)
    IN  /\ SetClient(provider, client)
        /\ turn' = AdapterCall("chat", provider, args,
                               IsTFile(files, <<KeyFileOf(provider)>>),
                               ClientSet(provider, genAI, clients),
                               EndedAs(turn, provider), did)
        /\ UNCHANGED <<vaultVars, callVars, ui, pc, opts, tools, turns, sends,
                       functionCalls, idx, functionResponses, threwAt, response,
                       metadata, outcome>>

\* One getModels() call of an adapter.
AdapterModels(provider, fetched) ==
    LET client == ClientAfterInit(provider, genAI, clients, files)
        models == ModelsCall(provider, client, fetched)
    IN  /\ SetClient(provider, client)
        /\ turn' = AdapterCall("getModels", provider, NoArgs,
                               IsTFile(files, <<KeyFileOf(provider)>>),
                               ClientSet(provider, genAI, clients),
                               EndedAs(turn, provider),
                               Did(Resolved(Str("models", <<models>>)), NoRequest,
                                   IF provider = "gemini" /\ client THEN 1 ELSE 0, FALSE,
                                   IF provider = "gemini" /\ client THEN fetched ELSE "none"))
        /\ UNCHANGED <<vaultVars, callVars, ui, pc, opts, tools, turns, sends,
                       functionCalls, idx, functionResponses, threwAt, response,
                       metadata, outcome>>

Fetches == {"results", "fails"}

ProviderInit ==
    /\ AdaptersIdle
    /\ files = NoteOnly
    /\ folders = [p \in {<<>>} |-> <<NoteName>>]
    /\ ChatIdle
    /\ ops = 0
    /\ last = NoCall

\* The credentials come and go between calls; the turns carry no history.
ProviderNext ==
    \/ \E name \in KeyFiles : PutKey(name)
    \/ \E provider \in Providers, context \in Contexts, mode \in Modes, answer \in Answers :
          \E fetched \in (IF mode = "web" THEN Fetches ELSE {"results"}) :
             AdapterChat(provider, <<>>, context, mode, fetched, answer)
    \/ \E provider \in Providers, fetched \in Fetches : AdapterModels(provider, fetched)

ProviderSpec == ProviderInit /\ [][ProviderNext]_vars

\* Every credential exists; the turns carry every history and context.
RequestInit ==
    /\ AdaptersIdle
    /\ files = [p \in {<<k>> : k \in KeyFiles} |-> NewDoc(<<"k">>)]
    /\ folders = [p \in {<<>>} |->
                    <<KeyFile, KeyFileOf("anthropic"), KeyFileOf("chatgpt"), TavilyKeyFile>>]
    /\ ChatIdle
    /\ ops = 0
    /\ last = NoCall

RequestNext ==
    \E provider \in Providers, history \in Histories, context \in Contexts,
       mode \in Modes, answer \in Answers :
       \E fetched \in (IF mode = "web" THEN Fetches ELSE {"results"}) :
          AdapterChat(provider, history, context, mode, fetched, answer)

RequestSpec == RequestInit /\ [][RequestNext]_vars

\* ------------------------------------------- chat() and its arguments
\* chat() of the three adapters as its caller sees it: the history array,
\* its turn objects and the attachments array it passed, after the call;
\* and the attachments the request of the call carries.

Attachment(name, mimeType) == [name |-> name, mimeType |-> mimeType]

\* The attachments arrays chat() is called with: none, an image, an image
\* and a PDF.
AttachmentLists ==
    {<<>>, <<Attachment("i", "image/png")>>,
     <<Attachment("i", "image/png"), Attachment("d", "application/pdf")>>}

\* The part of the request made for one attachment: inline data for Gemini;
\* for the two other adapters an image, or a text that names the attachment
\* whose content is not sent.
SentPart(provider, att) ==
    IF provider = "gemini" THEN [kind |-> "inlineData", att |-> att]
    ELSE IF att.mimeType = "image/png" THEN [kind |-> "image", att |-> att]
    ELSE [kind |-> "text", att |-> att]

\* The for loop over the attachments.
SentParts(provider, attachments) ==
    [i \in 1..Len(attachments) |-> SentPart(provider, attachments[i])]

\* The array chat() writes to after history.map: the context merged into the
\* first turn (Gemini), the new user message pushed (the two others).
WrittenHistory(provider, args) ==
    IF provider = "gemini" THEN GeminiHistory(args.history, args.context)
    ELSE Append(args.history, User(args.prompt))

\* A chat() that writes to the array it was passed.
CallerHistoryWritten(provider, args) == WrittenHistory(provider, args)

\* The caller's history after chat(): history.map returns a new array of new
\* objects, and it is that array chat() writes to.
CallerHistoryAfter(provider, args) == args.history

\* The caller's attachments after chat(): the array is only iterated.
CallerAttachmentsAfter(provider, args) == args.attachments

NoPrior == [context |-> <<>>, attachments |-> <<>>]

\* One chat() call of an adapter, with attachments; prior holds the context
\* and the attachments of the call before it.
InputsChat(provider, history, context, attachments, mode, fetched, answer) ==
    LET client == ClientAfterInit(provider, genAI, clients, files)
        args   == [history |-> history, context |-> context, prompt |-> ThePrompt,
                   mode |-> mode, attachments |-> attachments]
        did    == ChatCall(provider, client, args, IsTFile(files, <<TavilyKeyFile>>),
                           fetched, answer)
    IN  /\ SetClient(provider, client)
        /\ turn' = [op |-> "chat", provider |-> provider, args |-> args,
                    request |-> did.request,
                    parts |-> IF did.sent > 0 THEN SentParts(provider, attachments) ELSE <<>>,
                    sent |-> did.sent,
                    after |-> [history |-> CallerHistoryAfter(provider, args),
                               attachments |-> CallerAttachmentsAfter(provider, args)],
                    outcome |-> did.outcome,
                    prior |-> IF turn.op = "chat"
                              THEN [context |-> turn.args.context,
                                    attachments |-> turn.args.attachments]
                              ELSE NoPrior]
        /\ UNCHANGED <<vaultVars, callVars, ui, pc, opts, tools, turns, sends,
                       functionCalls, idx, functionResponses, threwAt, response,
                       metadata, outcome>>

\* Every credential but Anthropic's exists.
InputsInit ==
    /\ AdaptersIdle
    /\ files = [p \in {<<k>> : k \in KeyFiles \ {KeyFileOf("anthropic")}} |-> NewDoc(<<"k">>)]
    /\ folders = [p \in {<<>>} |-> <<KeyFile, KeyFileOf("chatgpt"), TavilyKeyFile>>]
    /\ ChatIdle
    /\ ops = 0
    /\ last = NoCall

\* The turns are document-mode turns: no web search takes part.
InputsNext ==
    \E provider \in Providers, history \in Histories, context \in Contexts,
       attachments \in AttachmentLists, answer \in Answers :
       InputsChat(provider, history, context, attachments, "obsidian", "results", answer)

InputsSpec == InputsInit /\ [][InputsNext]_vars

\* ------------------------------------------------------ AIChat.handleSubmit
\* The submit handler of the chat view, cut at its awaits: the synchronous
\* head, the read of the active file, the read of the selected Gem, and the
\* provider's chat() call.  A message text is the sequence of its pieces.

Message(role, text, isThinking) == [role |-> role, text |-> text, isThinking |-> isThinking]

\* m.text.startsWith('Error:')
StartsWithError(text) == text # <<>> /\ text[1] = "Error: "

\* The history handed to chat(): no thinking placeholder, no empty text, no
\* text that starts with 'Error:'.
HistoryOf(messages) ==
    LET kept == SelectSeq(messages,
                    LAMBDA m : ~m.isThinking /\ m.text # <<>> /\ ~StartsWithError(m.text))
    IN  [i \in 1..Len(kept) |-> [role |-> kept[i].role, text |-> kept[i].text]]

\* The ways activeProvider.chat() settles: a response, an error text of an
\* adapter that catches, a rejection.
Settled(kind, text) == [kind |-> kind, text |-> text]

ChatSettlements ==
    {Settled("resolved", <<"hello">>), Settled("resolved", <<"Error: ", "provider error">>),
     Settled("rejected", <<"API Key not found">>), Settled("rejected", <<"provider error">>)}

\* newMsgs[newMsgs.length - 1] = message
ReplaceLast(messages, message) == [messages EXCEPT ![Len(messages)] = message]

\* The message that replaces the placeholder when chat() has settled: the
\* response, or `Error: ${err.message}` from the catch block.
SettledMessage(settled) ==
    IF settled.kind = "resolved" THEN Message("model", settled.text, FALSE)
    ELSE Message("model", <<"Error: ">> \o settled.text, FALSE)

\* handleSubmit up to its first await, for a non-empty input and a selected
\* provider: the user message and the thinking placeholder are appended.
UiSubmit(input, mode, useActiveFile, gem) ==
    /\ ui.pc = "idle"
    /\ ui.submits < MaxSubmits
    /\ ui' = [ui EXCEPT
                !.messages = @ \o <<Message("user", input, FALSE), Message("model", <<>>, TRUE)>>,
                !.submits = @ + 1,
                !.job = [mode |-> mode, gem |-> gem, context |-> <<>>,
                         history |-> HistoryOf(ui.messages)],
                !.pc = IF useActiveFile THEN "context" ELSE IF gem THEN "gem" ELSE "chat"]
    /\ UNCHANGED <<vaultVars, chatVars, callVars, clients, turn>>

\* await getActiveFileContent(): null, a content, or a rejection, which
\* nothing in handleSubmit catches.
UiReadContext(read) ==
    /\ ui.pc = "context"
    /\ ui' = IF read = "throws"
             THEN [ui EXCEPT !.pc = "idle", !.escaped = TRUE]
             ELSE [ui EXCEPT !.job.context = IF read = "content" THEN <<"c">> ELSE <<>>,
                             !.pc = IF ui.job.gem THEN "gem" ELSE "chat"]
    /\ UNCHANGED <<vaultVars, chatVars, callVars, clients, turn>>

\* await geminiProvider.readGem(selectedGem), inside its try block.
UiReadGem(read) ==
    /\ ui.pc = "gem"
    /\ ui' = [ui EXCEPT !.job.context = IF read = "content" THEN @ \o <<"gem">> ELSE @,
                        !.pc = "chat"]
    /\ UNCHANGED <<vaultVars, chatVars, callVars, clients, turn>>

\* await activeProvider.chat(...) and what follows it.
UiChat(settled) ==
    /\ ui.pc = "chat"
    /\ ui' = [ui EXCEPT !.messages = ReplaceLast(@, SettledMessage(settled)),
                        !.pc = "idle", !.job = NoJob]
    /\ UNCHANGED <<vaultVars, chatVars, callVars, clients, turn>>

Inputs == {<<"hi">>, <<"Error: ", "x">>}

UiInit ==
    /\ AdaptersIdle
    /\ files = NoteOnly
    /\ folders = [p \in {<<>>} |-> <<NoteName>>]
    /\ ChatIdle
    /\ ops = 0
    /\ last = NoCall

UiNext ==
    \/ \E input \in Inputs, mode \in Modes, useActiveFile \in BOOLEAN, gem \in BOOLEAN :
          UiSubmit(input, mode, useActiveFile, gem)
    \/ \E read \in {"null", "content", "throws"} : UiReadContext(read)
    \/ \E read \in {"content", "throws"} : UiReadGem(read)
    \/ \E settled \in ChatSettlements : UiChat(settled)

UiSpec == UiInit /\ [][UiNext]_vars

\* ------------------------------------------- AIChat: overlapping submits
\* The chat view with nothing that keeps a submit from starting while the
\* chat() call of another is outstanding: the staged attachments, the submits
\* (without active file and Gem), the settling of each chat() call in any
\* order, and clearChat.  ui is [messages, attachments, jobs, submits, ended];
\* the input of submit n is 'q' n and what its chat() call yields carries n.

TurnIds == <<"1", "2", "3", "4">>

\* text: input + `\n[Attached ${attachments.length} file(s)]`
UserText(id, staged) ==
    <<"q", id>> \o (IF staged > 0 THEN <<"\n[Attached ", TurnIds[staged], " file(s)]">> ELSE <<>>)

\* The ways the chat() call of submit id settles.
TurnSettlements(id) ==
    {Settled("resolved", <<"r", id>>), Settled("resolved", <<"Error: ", id>>),
     Settled("rejected", <<"m", id>>)}

\* A handleSubmit that clears the staged attachments however chat() settled.
StagedAlwaysCleared(settled, staged) == 0

\* setAttachments([]) after the await of chat(), inside the try block.
StagedAfter(settled, staged) == IF settled.kind = "resolved" THEN 0 ELSE staged

\* newMsgs[newMsgs.length - 1] = message on a copy of the list: on an empty
\* list the assignment adds no element.
ReplaceLastOf(messages, message) ==
    IF messages = <<>> THEN <<>> ELSE ReplaceLast(messages, message)

ViewIdle == [messages |-> <<>>, attachments |-> 0, jobs |-> {}, submits |-> 0, ended |-> {}]

ViewInit ==
    /\ clients = [p \in OtherProviders |-> FALSE]
    /\ turn = NoTurn
    /\ ui = ViewIdle
    /\ files = NoteOnly
    /\ folders = [p \in {<<>>} |-> <<NoteName>>]
    /\ ChatIdle
    /\ ops = 0
    /\ last = NoCall

\* reader.onload of handleFileSelect: an attachment is staged.
ViewAttach ==
    /\ ui.attachments < MaxStaged
    /\ ui' = [ui EXCEPT !.attachments = @ + 1]
    /\ UNCHANGED <<vaultVars, chatVars, callVars, clients, turn>>

\* handleSubmit up to the await of chat(), without active file and Gem.
ViewSubmit ==
    /\ ui.submits < MaxSubmits
    /\ LET id == TurnIds[ui.submits + 1]
       IN  ui' = [ui EXCEPT
                    !.messages = @ \o <<Message("user", UserText(id, ui.attachments), FALSE),
                                        Message("model", <<>>, TRUE)>>,
                    !.submits = @ + 1,
                    !.jobs = @ \cup {[id |-> id, attachments |-> ui.attachments,
                                      history |-> HistoryOf(ui.messages)]}]
    /\ UNCHANGED <<vaultVars, chatVars, callVars, clients, turn>>

\* The chat() call of a submit settles: the rest of its handleSubmit.
ViewSettle(job, settled) ==
    /\ job \in ui.jobs
    /\ ui' = [ui EXCEPT
                !.messages = ReplaceLastOf(@, SettledMessage(settled)),
                !.attachments = StagedAfter(settled, @),
                !.jobs = @ \ {job},
                !.ended = @ \cup {[id |-> job.id, kind |-> settled.kind, text |-> settled.text]}]
    /\ UNCHANGED <<vaultVars, chatVars, callVars, clients, turn>>

\* clearChat
ViewClear ==
    /\ ui' = [ui EXCEPT !.messages = <<>>, !.attachments = 0]
    /\ UNCHANGED <<vaultVars, chatVars, callVars, clients, turn>>

ViewNext ==
    \/ ViewAttach
    \/ ViewSubmit
    \/ \E job \in ui.jobs : \E settled \in TurnSettlements(job.id) : ViewSettle(job, settled)
    \/ ViewClear

ViewSpec == ViewInit /\ [][ViewNext]_vars

\* ------------------------------------------------ AIChat: the model list
\* The provider selector of the chat view: the effect that asks the active
\* provider for its models whenever the active provider changes, the
\* callback that stores each list when its promise settles, the model
\* selector, and the model id handleSubmit passes to chat().  ui is [active,
\* models, selected, saved, pending, switches, passed].

ModelId(provider, n) == [provider |-> provider, n |-> n]

\* useState(''): no model selected.
NoModel == ModelId("none", 0)

\* The list getModels() of a provider resolves to.
ModelList(provider, keyed, fetched) ==
    IF ModelsCall(provider, keyed, fetched) = "empty" THEN <<>>
    ELSE <<ModelId(provider, 1), ModelId(provider, 2)>>

\* The callback of getModels().then for the list ms of an effect run for
\* provider: what it selects, given the selection and the model saved in
\* localStorage for that provider.
SelectedAfter(ms, savedModel, selected) ==
    IF Len(ms) = 0 THEN selected
    ELSE IF savedModel # NoModel /\ \E i \in 1..Len(ms) : ms[i] = savedModel THEN savedModel
    ELSE ms[1]

ModelsIdle ==
    [active |-> "gemini", models |-> <<>>, selected |-> NoModel,
     saved |-> [p \in Providers |-> NoModel],
     pending |-> {[provider |-> "gemini", run |-> 0]},
     switches |-> 0,
     passed |-> [provider |-> "none", model |-> NoModel, quiet |-> FALSE]]

\* The view is mounted: the effect has run once for providers[0].
ModelsInit ==
    /\ clients = [p \in OtherProviders |-> FALSE]
    /\ turn = NoTurn
    /\ ui = ModelsIdle
    /\ files = NoteOnly
    /\ folders = [p \in {<<>>} |-> <<NoteName>>]
    /\ ChatIdle
    /\ ops = 0
    /\ last = NoCall

\* handleProviderChange, and the effect that runs for the new active provider.
SwitchProvider(provider) ==
    /\ ui.switches < MaxSwitches
    /\ provider # ui.active
    /\ ui' = [ui EXCEPT !.active = provider,
                        !.switches = @ + 1,
                        !.pending = @ \cup {[provider |-> provider, run |-> ui.switches + 1]}]
    /\ UNCHANGED <<vaultVars, chatVars, callVars, clients, turn>>

\* The promise of one getModels() call settles: the then callback.
ModelsSettle(job, keyed, fetched) ==
    /\ job \in ui.pending
    /\ LET ms == ModelList(job.provider, keyed, fetched)
       IN  ui' = [ui EXCEPT !.models = ms,
                            !.selected = SelectedAfter(ms, ui.saved[job.provider], @),
                            !.pending = @ \ {job}]
    /\ UNCHANGED <<vaultVars, chatVars, callVars, clients, turn>>

\* handleModelChange: a model of the displayed list is chosen.
ModelChange(i) ==
    /\ i \in 1..Len(ui.models)
    /\ ui' = [ui EXCEPT !.selected = ui.models[i], !.saved[ui.active] = ui.models[i]]
    /\ UNCHANGED <<vaultVars, chatVars, callVars, clients, turn>>

\* handleSubmit: activeProvider.chat(..., selectedModel, ...).
PassModel ==
    /\ ui' = [ui EXCEPT !.passed = [provider |-> ui.active, model |-> ui.selected,
                                    quiet |-> ui.pending = {}]]
    /\ UNCHANGED <<vaultVars, chatVars, callVars, clients, turn>>

ModelsNext ==
    \/ \E provider \in Providers : SwitchProvider(provider)
    \/ \E job \in ui.pending, keyed \in BOOLEAN, fetched \in Fetches :
          ModelsSettle(job, keyed, fetched)
    \/ \E i \in 1..2 : ModelChange(i)
    \/ PassModel

ModelsSpec == ModelsInit /\ [][ModelsNext]_vars

\* ------------------------------------------ GeminiService.getCustomCommands
\* The config document is a sequence of characters; the heading text
\* '## Custom Commands' is one token of it.

CommandsHeading == "## Custom Commands"

\* s.split(sep) for a one-character separator.
RECURSIVE SplitOn(_, _)
SplitOn(s, sep) ==
    LET at == {i \in 1..Len(s) : s[i] = sep}
    IN  IF at = {} THEN <<s>>
        ELSE <<SubSeq(s, 1, MinOf(at) - 1)>> \o SplitOn(SubSeq(s, MinOf(at) + 1, Len(s)), sep)

\* parts.join(sep)
RECURSIVE JoinWith(_, _)
JoinWith(parts, sep) ==
    IF parts = <<>> THEN <<>>
    ELSE IF Len(parts) = 1 THEN parts[1]
    ELSE parts[1] \o <<sep>> \o JoinWith(Tail(parts), sep)

\* s.trim(), the white space of the model being ' ' and '\n'.
Trim(s) ==
    LET inked == {i \in 1..Len(s) : s[i] \notin {" ", "\n"}}
    IN  IF inked = {} THEN <<>> ELSE SubSeq(s, MinOf(inked), MaxOf(inked))

\* content.match(/## Custom Commands\n([\s\S]*?)(?=$|^#)/)[1], <<>> when
\* there is no match.  The expression has no 'm' flag: ^ matches at the start
\* of the content only and $ at its end only, so the lazy group runs from the
\* first heading to the end of the content.
CommandsSection(content) ==
    LET at == {i \in 1..(Len(content) - 1) :
                  content[i] = CommandsHeading /\ content[i + 1] = "\n"}
    IN  IF at = {} THEN <<>> ELSE SubSeq(content, MinOf(at) + 2, Len(content))

\* The map of getCustomCommands on one trimmed line that starts with '-':
\* <<entry>>, or <<>> for null.
CommandOf(line) ==
    LET parts == SplitOn(Tail(line), ":")
    IN  IF Len(parts) >= 2
        THEN <<[label  |-> Trim(parts[1]),
                prompt |-> Trim(JoinWith(Tail(parts), ":"))]>>
        ELSE <<>>

\* The split/map/filter chain of getCustomCommands over the lines of a section.
RECURSIVE CommandsOfLines(_)
CommandsOfLines(lines) ==
    IF lines = <<>> THEN <<>>
    ELSE LET line == Trim(lines[1])
         IN  (IF line # <<>> /\ line[1] = "-" THEN CommandOf(line) ELSE <<>>)
             \o CommandsOfLines(Tail(lines))

\* GeminiService.getCustomCommands
GetCustomCommands(fs) ==
    IF ~IsTFile(fs, <<ConfigFile>>) THEN <<>>
    ELSE LET section == CommandsSection(fs[<<ConfigFile>>].text)
         IN  IF section = <<>> THEN <<>> ELSE CommandsOfLines(SplitOn(section, "\n"))

\* The lines config documents are made of: the heading, another heading, a
\* command, a command with a second colon, a list line without colon, a line
\* without '-'.
ConfigLines ==
    {<<CommandsHeading>>,
     <<"#", "#", " ", "o">>,
     <<"-", " ", "a", ":", " ", "b">>,
     <<"-", "a", ":", "b", ":", "c">>,
     <<"-", " ", "a">>,
     <<"a", ":", " ", "b">>}

ConfigDocuments == {JoinWith(ls, "\n") : ls \in StringsUpTo(ConfigLines, MaxLines)}

\* One getCustomCommands() call.
CustomCommands ==
    /\ turn.op = "none"
    /\ turn' = AdapterCall("getCustomCommands", "gemini", NoArgs,
                           IsTFile(files, <<KeyFile>>), genAI, "none",
                           Did(Resolved(Str("commands", GetCustomCommands(files))),
                               NoRequest, 0, FALSE, "none"))
    /\ UNCHANGED <<vaultVars, chatVars, callVars, clients, ui>>

CommandsInit ==
    /\ AdaptersIdle
    /\ \/ files = NoteOnly /\ folders = [p \in {<<>>} |-> <<NoteName>>]
       \/ \E doc \in ConfigDocuments :
             /\ files = WithDoc(NoteOnly, <<ConfigFile>>, NewDoc(doc))
             /\ folders = [p \in {<<>>} |-> <<NoteName, ConfigFile>>]
    /\ ChatIdle
    /\ ops = 0
    /\ last = NoCall

CommandsNext == CustomCommands

CommandsSpec == CommandsInit /\ [][CommandsNext]_vars

\* ===================================================== properties (Spec)

\* C1: a chat() call never makes more than 6 provider round-trips
\* (chat.sendMessage calls): the initial send and at most 5 tool-resolution
\* rounds, whatever the provider answers.
RoundTripsBounded ==
    /\ sends <= 6
    /\ turns <= 5
    /\ sends <= turns + 1

\* C1 witness: the provider asked for tools in every response: the sixth
\* round-trip has been made and its response still requests calls.
SixthRoundTripMade ==
    pc = "extract" /\ sends = 6 /\ turns = 5 /\ functionCalls # <<>>

\* C2: the function responses of a round pair with the requested calls: one
\* entry per call dispatched so far, in request order, each under the name of
\* its request, 'Unknown tool: <name>' for a name no tool has, an 'Error: '
\* string for a dispatch that threw; and when the round's responses are about
\* to be sent (pc = "send" after a round) there is one for every request.
BatchAnswered ==
    /\ pc = "dispatch" => Len(functionResponses) = idx - 1
    /\ (pc = "send" /\ turns > 0) => Len(functionResponses) = Len(functionCalls)
    /\ Len(functionResponses) <= Len(functionCalls)
    /\ \A i \in 1..Len(functionResponses) :
          /\ functionResponses[i].name = functionCalls[i].name
          /\ functionCalls[i].name = "web_search" =>
                /\ functionResponses[i].result.text = "Unknown tool: "
                /\ functionResponses[i].result.arg = "web_search"
          /\ i \in threwAt => functionResponses[i].result.text = "Error: "

\* C2 witness: a round of two calls, the first of which threw and the second
\* of which names no tool, is answered in full and about to be sent.
FailedAndUnknownAnswered ==
    /\ pc = "send"
    /\ Len(functionCalls) = 2
    /\ Len(functionResponses) = 2
    /\ threwAt = {1}
    /\ functionCalls[2].name = "web_search"

\* C3: a Document Store operation that throws does not reject the chat() call:
\* the call settles as rejected only for a missing credential, a provider
\* error or a throwing observer; the failure is the tool result
\* 'Error: <message>' of its call; the round goes on with the next call and
\* ends with every call answered, ready for the next round-trip.
ToolFailureFedBack ==
    /\ outcome.kind = "rejected" =>
          outcome.text.text \in {"API Key not found", "provider error", "observer error"}
    /\ threwAt # {} => pc \in {"dispatch", "send"}
    /\ \A i \in threwAt :
          /\ i <= Len(functionResponses)
          /\ functionResponses[i].result.text = "Error: "
          /\ functionResponses[i].result.arg.text \in
                {"File not found: ", "File already exists.", "Destination file already exists!"}
    /\ pc = "dispatch" => idx <= Len(functionCalls) /\ Len(functionResponses) = idx - 1
    /\ (pc = "send" /\ threwAt # {}) => Len(functionResponses) = Len(functionCalls)

\* C3 witness: read_note of a note that an earlier call of the batch moved to
\* Trash threw, and the batch is complete and about to be sent.
ReadOfDeletedNoteFedBack ==
    /\ pc = "send"
    /\ Len(functionCalls) = 2
    /\ functionCalls[1].name = "delete_note"
    /\ functionCalls[2].name = "read_note"
    /\ threwAt = {2}
    /\ functionResponses[2].result.arg.text = "File not found: "

\* C4: the declared tool set is a partition by mode: exactly the seven
\* document operations in 'obsidian' mode, exactly the search tool in web
\* mode; and every declared document tool has a dispatch branch: dispatched in
\* any store the chat reaches, it never yields 'Unknown tool'.
ToolSetPartition ==
    /\ pc \in {"send", "dispatch", "extract", "done"} =>
          /\ opts.mode = "obsidian" =>
                tools = {"list_files", "read_note", "save_note", "update_frontmatter",
                         "find_files_by_name", "replace_in_note", "delete_note"}
          /\ opts.mode = "web" => tools = {"googleSearch"}
    /\ \A c \in CallOptions :
          c.name \in DeclaredTools("obsidian") =>
             Dispatch(c, files, folders, "1").value.text # "Unknown tool: "
    /\ \A i \in 1..Len(functionResponses) :
          functionCalls[i].name \in DeclaredTools("obsidian") =>
             functionResponses[i].result.text # "Unknown tool: "

\* C4 witness: in document mode a delete_note call was dispatched to the
\* store and moved the note.
DeclaredToolDispatched ==
    /\ opts.mode = "obsidian"
    /\ "delete_note" \in tools
    /\ Len(functionResponses) >= 1
    /\ functionCalls[1].name = "delete_note"
    /\ functionResponses[1].result.text = "Successfully moved "

\* C5 (as claimed): no step of a chat() call made in web mode changes the
\* document store, whatever function calls the provider's responses contain.
WebModeLeavesStore ==
    [][(opts.mode = "web" /\ pc \in {"send", "dispatch", "extract"}) =>
          (files' = files /\ folders' = folders)]_vars

\* C5 witness of the divergence: in web mode a save_note call of the response
\* was dispatched and overwrote the note.
WebModeSaved ==
    /\ opts.mode = "web"
    /\ tools = {"googleSearch"}
    /\ Len(functionResponses) >= 1
    /\ functionCalls[1].name = "save_note"
    /\ functionResponses[1].result.text = "Successfully updated note: "
    /\ files[NotePath].text = <<"b">>

\* C6: when the response received after the 5th round still requests calls,
\* the only step left is the extraction: it dispatches nothing (the store is
\* unchanged), sends nothing, and chat() resolves to a string, the text
\* extracted from that response; this happens after the 6th round-trip only.
CapEndsTheTurn ==
    [][(pc = "extract" /\ functionCalls # <<>>) =>
          /\ turns = MAX_TURNS
          /\ sends = MAX_TURNS + 1
          /\ pc' = "done"
          /\ outcome'.kind = "resolved"
          /\ outcome'.text.text \in
                {"finalOutput", SafetyMessage, RecitationMessage, OtherMessage,
                 NoResponseMessage}
          /\ sends' = sends
          /\ files' = files
          /\ folders' = folders]_vars

\* C6 witness: chat() has resolved from a last response that, after 5 rounds,
\* still carried function calls.
ResolvedWithCallsPending ==
    /\ pc = "done"
    /\ turns = 5
    /\ sends = 6
    /\ outcome.kind = "resolved"
    /\ \E i \in 1..Len(response.parts) : response.parts[i].other = "functionCall"

\* A response without a text, inline-binary, executable-code or code-result
\* part (and without a thought part either), its parts list absent or empty.
NoExtractableParts(resp) ==
    \/ resp.shape # "parts"
    \/ \A i \in 1..Len(resp.parts) :
          /\ resp.parts[i].text = ""
          /\ resp.parts[i].thought = ""
          /\ resp.parts[i].other \notin {"inlineData", "executableCode", "codeExecutionResult"}

\* C7 (as claimed): a final response without extractable parts resolves to
\* the message of its completion reason, whatever the options are.
BlockedResponseGetsItsMessage ==
    (pc = "done" /\ NoExtractableParts(response)) =>
       /\ outcome.kind = "resolved"
       /\ outcome.text.text =
             (CASE response.finishReason = "SAFETY" -> SafetyMessage
                [] response.finishReason = "RECITATION" -> RecitationMessage
                [] response.finishReason = "OTHER" -> OtherMessage
                [] OTHER -> NoResponseMessage)

\* C7 witness of the divergence: with high reasoning on, a response with an
\* empty parts list and completion reason SAFETY resolved to the note about
\* the thinking process.
SafetyBlockAnsweredWithNote ==
    /\ pc = "done"
    /\ opts.deepThink
    /\ response.shape = "parts"
    /\ response.parts = <<>>
    /\ response.finishReason = "SAFETY"
    /\ outcome = Resolved(Str("finalOutput", <<Str("note", "")>>))

\* C13: within a round the calls are dispatched one at a time in the order
\* requested (the responses so far answer exactly the calls before idx), and a
\* call observes the effects of the call before it: a read_note that follows
\* a save_note of the same path returns the content just saved, and one that
\* follows a delete_note of that path fails with 'File not found'.
LaterCallSeesEarlier ==
    /\ pc = "dispatch" => Len(functionResponses) = idx - 1
    /\ \A i \in 2..Len(functionResponses) :
          /\ (functionCalls[i - 1].name = "save_note" /\ functionCalls[i].name = "read_note"
                /\ functionCalls[i].path = functionCalls[i - 1].path) =>
                /\ functionResponses[i].result.text = "content"
                /\ functionResponses[i].result.arg.text = functionCalls[i - 1].text
          /\ (functionCalls[i - 1].name = "delete_note" /\ functionCalls[i].name = "read_note"
                /\ functionCalls[i].path = functionCalls[i - 1].path
                /\ functionResponses[i - 1].result.text = "Successfully moved ") =>
                /\ functionResponses[i].result.text = "Error: "
                /\ functionResponses[i].result.arg.text = "File not found: "

\* C13 witness: a batch of save_note and read_note of the same note is
\* answered: the note held 'a', and the read returned the 'b' just saved.
ReadReturnedSavedContent ==
    /\ pc = "send"
    /\ turns = 1
    /\ Len(functionResponses) = 2
    /\ functionCalls[1].name = "save_note"
    /\ functionCalls[2].name = "read_note"
    /\ functionResponses[2].result.text = "content"
    /\ functionResponses[2].result.arg.text = <<"b">>

\* C14 (as claimed): the tool-notification observer never changes the control
\* flow: whatever it does (absent, returning, throwing), a requested call is
\* dispatched and answered, so every step taken while a round is being
\* dispatched pushes one function response and stays in the round.
ObserverNeverChangesTheTurn ==
    [][pc = "dispatch" =>
          /\ pc' \in {"dispatch", "send"}
          /\ Len(functionResponses') = Len(functionResponses) + 1]_vars

\* C14 witness of the divergence: the observer threw at the first call of the
\* first round: chat() rejected with the observer's error, no tool was
\* dispatched and nothing more was sent.
RejectedByObserver ==
    /\ pc = "rejected"
    /\ opts.observer
    /\ outcome.kind = "rejected"
    /\ outcome.text.text = "observer error"
    /\ turns = 1
    /\ sends = 1

\* C15 (as claimed): an error of the network or the vendor raised by a
\* provider round-trip (the first send or a re-send of tool results) is caught:
\* the send that yields no response settles chat() as resolved, to the text
\* 'Error: <message>'.
ProviderErrorsSurfaceAsText ==
    [][(pc = "send" /\ sends' = sends + 1 /\ pc' \notin {"dispatch", "extract"}) =>
          /\ outcome'.kind = "resolved"
          /\ outcome'.text.text = "Error: "]_vars

\* C15 witness of the divergence: the re-send of the first round's tool
\* results failed, and chat() rejected with the provider's error.
RejectedByProviderError ==
    /\ pc = "rejected"
    /\ outcome.kind = "rejected"
    /\ outcome.text.text = "provider error"
    /\ turns = 1
    /\ sends = 2

\* C19: chat() stops at the first response without tool calls: the loop is
\* left with calls pending only at the cap; once it is left, no tool is
\* executed and no request is sent; a turn whose first r responses requested
\* tools (turns = r) has made r + 1 round-trips when it resolves, and it
\* resolves to a non-empty text.
StopsAtFirstResponseWithoutCalls ==
    [][/\ (pc' = "extract" /\ functionCalls' # <<>>) => turns' = MAX_TURNS
       /\ pc' \in {"extract", "done"} => (sends' = turns' + 1 /\ turns' \in 0..MAX_TURNS)
       /\ pc = "extract" =>
             /\ pc' = "done"
             /\ sends' = sends
             /\ turns' = turns
             /\ files' = files
             /\ folders' = folders
             /\ outcome'.kind = "resolved"
             /\ outcome'.text.text # ""
             /\ outcome'.text.text = "finalOutput" => outcome'.text.arg # <<>>]_vars

\* C19 witness: one tool round, then a response without calls: the turn
\* resolved to its text after 2 round-trips.
ResolvedAfterOneToolRound ==
    /\ pc = "done"
    /\ opts.mode = "obsidian"
    /\ turns = 1
    /\ sends = 2
    /\ outcome.kind = "resolved"
    /\ outcome.text.text = "finalOutput"
    /\ \A i \in 1..Len(response.parts) : response.parts[i].other # "functionCall"

\* The reference rendering of a list of parts.  The type of a part:
PartType(part) ==
    IF part.thought # "" THEN "thought"
    ELSE IF part.text # "" THEN "text"
    ELSE IF part.other \in {"inlineData", "executableCode", "codeExecutionResult"}
         THEN part.other
    ELSE "nothing"

\* The rendering of one part of the body: the text verbatim, a media
\* reference, a fenced block tagged with the language, a fenced output block.
Rendered(part) ==
    IF PartType(part) = "text" THEN Str("text", part.text)
    ELSE IF PartType(part) = "inlineData" THEN Str("image", "inlineData")
    ELSE IF PartType(part) = "executableCode" THEN Str("code", "executableCode")
    ELSE Str("output", "codeExecutionResult")

ReferenceBody(parts) ==
    LET typed == SelectSeq(parts, LAMBDA part :
                    PartType(part) \in {"text", "inlineData", "executableCode",
                                        "codeExecutionResult"})
    IN  [i \in 1..Len(typed) |-> Rendered(typed[i])]

\* The one collapsible block: every thought followed by a line break.
ReferenceBlock(parts) ==
    LET thoughts == SelectSeq(parts, LAMBDA part : PartType(part) = "thought")
    IN  Str("details", [i \in 1..(2 * Len(thoughts)) |->
                           IF i % 2 = 1 THEN thoughts[(i + 1) \div 2].thought ELSE "\n"])

ReferenceRendering(parts, deepThink) ==
    IF \E i \in 1..Len(parts) : PartType(parts[i]) = "thought"
    THEN <<ReferenceBlock(parts)>> \o ReferenceBody(parts)
    ELSE IF deepThink THEN ReferenceBody(parts) \o <<Str("note", "")>>
    ELSE ReferenceBody(parts)

\* Two renderings are the same: the same pieces in the same order.
SameRendering(a, b) ==
    /\ Len(a) = Len(b)
    /\ \A i \in 1..Len(a) : a[i].text = b[i].text /\ a[i].arg = b[i].arg

\* C20: the final output chat() resolves to is the reference rendering of
\* the parts of the last response: the body pieces in part order, the one
\* block of thoughts before the whole body if there is any thought, the note
\* after the body if deepThink was asked and there is no thought, the body
\* alone otherwise; a response whose reference rendering is not empty
\* resolves to it.
FinalOutputIsReferenceRendering ==
    (pc = "done" /\ outcome.kind = "resolved" /\ response.shape = "parts") =>
        /\ outcome.text.text = "finalOutput" =>
               SameRendering(outcome.text.arg,
                             ReferenceRendering(response.parts, opts.deepThink))
        /\ ReferenceRendering(response.parts, opts.deepThink) # <<>> =>
               outcome.text.text = "finalOutput"

\* C20 witness: a response with a thought part after a text part resolved to
\* the block of thoughts followed by the body.
ThoughtsRenderedBeforeBody ==
    /\ pc = "done"
    /\ outcome.kind = "resolved"
    /\ response.shape = "parts"
    /\ Len(response.parts) >= 2
    /\ response.parts[1].thought = ""
    /\ response.parts[2].thought # ""
    /\ outcome.text.text = "finalOutput"
    /\ outcome.text.arg[1].text = "details"
    /\ Len(outcome.text.arg) = 3

\* C21: usage metadata travels on the side channel only: onMetadata is
\* called in one step of a chat() call at most, the step after the loop that
\* reads the final response, never during a tool round and never when the
\* callback was not passed; the text chat() resolves to is the text extracted
\* from the final response, whatever the usage metadata and the callback.
UsageOnSideChannelOnly ==
    [][/\ metadata' # metadata =>
             /\ pc = "extract"
             /\ pc' = "done"
             /\ metadata = "none"
             /\ opts.onMetadata
             /\ metadata' \in Usages
       /\ pc' \in {"send", "dispatch", "extract"} => metadata' = "none"
       /\ pc' = "done" =>
             /\ outcome'.kind = "resolved"
             /\ outcome'.text.text = ExtractText(response', opts'.deepThink).text
             /\ SameRendering(outcome'.text.arg,
                              ExtractText(response', opts'.deepThink).arg)]_vars

\* C21 witness: after a tool round the usage metadata of the final response
\* was reported and the call resolved to the final output.
UsageReportedAfterToolRound ==
    /\ pc = "done"
    /\ turns >= 1
    /\ opts.onMetadata
    /\ metadata = "camel"
    /\ outcome.kind = "resolved"
    /\ outcome.text.text = "finalOutput"

\* ================================================ properties (VaultSpec)

SaveTwiceIsSaveOnce ==
    [][(last.op = "save" /\ last'.op = "save" /\ ops' = ops + 1
            /\ last'.path = last.path /\ last'.text = last.text) =>
          (files' = files /\ folders' = folders)]_vars

\* C10 witness: a document in a new folder was saved twice in a row.
SavedTwice ==
    /\ last.op = "save"
    /\ last.again
    /\ last.ok
    /\ last.path = <<<<"e">>, NoteName>>
    /\ files[last.path].text = last.text

\* ============================================ properties (RoundTripSpec)

\* The characters of a string.
CharsOf(str) == {str[i] : i \in 1..Len(str)}

\* C9 (as claimed, on its plainest inputs): after saveNote(path, content) and
\* replaceInNote(path, target, replacement), where the non-empty target occurs
\* exactly once in the content and the non-empty replacement has no character
\* in common with the content, the document contains the target no longer and
\* the replacement exactly once.
ReplaceRoundTripAsClaimed ==
    [][(last.op = "save" /\ last.ok /\ last'.op = "replace"
            /\ last'.target # <<>>
            /\ Cardinality(Occurrences(last.text, last'.target)) = 1
            /\ last'.replacement # <<>>
            /\ CharsOf(last'.replacement) \cap CharsOf(last.text) = {}) =>
          /\ ~Includes(files'[NotePath].text, last'.target)
          /\ Cardinality(Occurrences(files'[NotePath].text, last'.replacement)) = 1]_vars

\* C9 witness of the divergence: 'a' was saved and its 'a' replaced by '$$':
\* the document is '$', which does not contain the replacement.
DollarsCollapsed ==
    /\ last.op = "replace"
    /\ last.ok
    /\ last.target = <<"a">>
    /\ last.replacement = <<"$", "$">>
    /\ files[NotePath].text = <<"$">>

\* C9 (what holds): the same with a replacement that has no '$' either; the
\* document then is the saved content with that one occurrence replaced, and
\* the call reports success.
ReplaceRoundTrip ==
    [][(last.op = "save" /\ last.ok /\ last'.op = "replace"
            /\ last'.target # <<>>
            /\ Cardinality(Occurrences(last.text, last'.target)) = 1
            /\ last'.replacement # <<>>
            /\ "$" \notin CharsOf(last'.replacement)
            /\ CharsOf(last'.replacement) \cap CharsOf(last.text) = {}) =>
          /\ files[NotePath].text = last.text
          /\ last'.ok
          /\ last'.value.text = "Successfully replaced content in "
          /\ ~Includes(files'[NotePath].text, last'.target)
          /\ Cardinality(Occurrences(files'[NotePath].text, last'.replacement)) = 1
          /\ Len(files'[NotePath].text) =
                Len(last.text) - Len(last'.target) + Len(last'.replacement)]_vars

\* C9 (what holds), its case: 'ab' was saved and its 'a' replaced by 'c'.
ReplacedOnce ==
    /\ last.op = "replace"
    /\ last.ok
    /\ last.target = <<"a">>
    /\ last.replacement = <<"c">>
    /\ files[NotePath].text = <<"c", "b">>

\* ============================================== properties (RequestSpec)

\* C11 (as claimed): for every provider and history, a non-empty context is
\* attached to the newest outgoing user message only: every turn of the
\* request's history has the text of the supplied history's turn, and the
\* outgoing prompt carries the context.
ContextOnNewestMessage ==
    (turn.op = "chat" /\ turn.sent > 0 /\ turn.args.context # <<>>) =>
       /\ Len(turn.request.history) = Len(turn.args.history)
       /\ \A i \in 1..Len(turn.args.history) :
             turn.request.history[i].text = turn.args.history[i].text
       /\ Includes(turn.request.prompt, turn.args.context)

\* C11 witness of the divergence: the Gemini adapter, given a history that
\* starts with a user turn, merged the context into that first turn and sent
\* the prompt without it.
ContextMergedIntoFirstTurn ==
    /\ turn.op = "chat"
    /\ turn.provider = "gemini"
    /\ turn.sent = 1
    /\ turn.args.context = <<"c">>
    /\ turn.args.history = <<User(<<"h">>), Model(<<"g">>)>>
    /\ turn.request.history[1].text = WithContext(<<"c">>, <<"h">>)
    /\ turn.request.prompt = ThePrompt

\* ============================================= properties (ProviderSpec)

\* C12: for each adapter, a chat() call made while the credential document is
\* absent (and the client unset) rejects with the adapter's
\* credentials-not-found error before any provider request is sent and before
\* any web search runs; a getModels() call always resolves, and without the
\* credential it resolves to the empty list or to the adapter's fixed list.
CredentialAbsentFailsEarly ==
    /\ (turn.op = "chat" /\ ~turn.keyed /\ ~turn.wasSet) =>
          /\ turn.outcome.kind = "rejected"
          /\ turn.outcome.text.text = CredentialMessage(turn.provider)
          /\ turn.sent = 0
          /\ turn.request = NoRequest
          /\ ~turn.searched
    /\ turn.op = "getModels" =>
          /\ turn.outcome.kind = "resolved"
          /\ (~turn.keyed /\ ~turn.wasSet) =>
                /\ turn.outcome.text.arg \in {<<"empty">>, <<"fixed">>}
                /\ turn.sent = 0

\* C12 witness: the Anthropic adapter was asked for a web-mode turn without
\* its credential document, and rejected.
CredentialMissingInWebMode ==
    /\ turn.op = "chat"
    /\ turn.provider = "anthropic"
    /\ turn.args.mode = "web"
    /\ ~turn.keyed
    /\ turn.outcome.kind = "rejected"
    /\ ~IsTFile(files, <<KeyFileOf("anthropic")>>)

\* C17: credential and network failures are session-recoverable: a chat()
\* call that follows a failed chat() call on the same adapter (the credential
\* was missing, or the provider request errored) initializes lazily again
\* and, once the credential document exists and the provider answers with a
\* text, sends its request and resolves to the response, as a first call does
\* (files' = files: the step is a call, not the creation of a credential).
FailedTurnIsRecoverable ==
    [][(turn'.op = "chat" /\ files' = files
           /\ EndedAs(turn, turn'.provider) = "failed"
           /\ IsTFile(files, <<KeyFileOf(turn'.provider)>>)) =>
          /\ turn'.prior = "failed"
          /\ ClientSet(turn'.provider, genAI', clients')
          /\ turn'.sent = 1
          /\ turn'.answer = "text" =>
                /\ turn'.outcome.kind = "resolved"
                /\ turn'.outcome.text.text \in {"response", "finalOutput"}]_vars

\* C17 witness: on the Gemini adapter a chat() call that had failed for the
\* missing credential was followed, the credential created, by one that
\* resolved to the response.
RecoveredAfterMissingCredential ==
    /\ turn.op = "chat"
    /\ turn.provider = "gemini"
    /\ turn.prior = "failed"
    /\ ~turn.wasSet
    /\ turn.keyed
    /\ turn.sent = 1
    /\ turn.outcome.kind = "resolved"
    /\ turn.outcome.text.text = "finalOutput"

\* C25: in web mode the Anthropic and ChatGPT adapters degrade when the web
\* search cannot be made: a turn that passed the credential check of the
\* adapter called TavilyService.search once, the search resolved to a text
\* (the missing-key error without any fetch when tavily_api_key.txt is
\* absent, else after one fetch), and the one provider request of the turn
\* carries that text in its context; the turn resolved.
WebSearchDegrades ==
    [][(/\ files' = files
        /\ turn' # turn
        /\ turn'.op = "chat"
        /\ turn'.provider \in OtherProviders
        /\ turn'.args.mode = "web"
        /\ ClientAfterInit(turn'.provider, genAI, clients, files)) =>
          /\ turn'.searched
          /\ turn'.search.calls = 1
          /\ turn'.search.requests = (IF IsTFile(files, <<TavilyKeyFile>>) THEN 1 ELSE 0)
          /\ ~IsTFile(files, <<TavilyKeyFile>>) =>
                 turn'.search.result = <<"Error: Tavily API Key missing.">>
          /\ turn'.search.result # <<>>
          /\ turn'.sent = 1
          /\ turn'.answer \in Answers
          /\ Includes(turn'.request.prompt,
                      <<"\n\nWeb Search Results:\n">> \o turn'.search.result \o <<"\n\n">>)
          /\ turn'.outcome.kind = "resolved"]_vars

\* C25 witness: a web turn of the Anthropic adapter without the Tavily
\* credential sent its request with the missing-key text and got a response.
SentWithoutWebSearchKey ==
    /\ turn.op = "chat"
    /\ turn.provider = "anthropic"
    /\ turn.args.mode = "web"
    /\ ~IsTFile(files, <<TavilyKeyFile>>)
    /\ turn.search.calls = 1
    /\ turn.search.requests = 0
    /\ turn.sent = 1
    /\ Includes(turn.request.prompt, <<"Error: Tavily API Key missing.">>)
    /\ turn.outcome.kind = "resolved"
    /\ turn.outcome.text.text = "response"

\* =================================================== properties (UiSpec)

\* C16 (as claimed): every turn submitted through the chat view ends in a
\* displayable string: once the handler is over, no exception has escaped it
\* and no thinking placeholder is left: the last message is a model message
\* with a text.
EveryTurnEndsDisplayable ==
    (ui.pc = "idle" /\ ui.submits > 0) =>
       /\ ~ui.escaped
       /\ \A i \in 1..Len(ui.messages) : ~ui.messages[i].isThinking
       /\ ui.messages[Len(ui.messages)].role = "model"
       /\ ui.messages[Len(ui.messages)].text # <<>>

\* C16 witness of the divergence: the read of the active file rejected: the
\* handler is over, the exception escaped it, and the turn's placeholder is
\* still thinking.
PlaceholderLeftThinking ==
    /\ ui.pc = "idle"
    /\ ui.escaped
    /\ ui.submits = 1
    /\ Len(ui.messages) = 2
    /\ ui.messages[2].isThinking

\* C28 (as claimed): the history handleSubmit passes to chat() holds no
\* placeholder and no empty text, no text that starts with 'Error:', and
\* alternates user, model, user, model, ... from a user turn.
HistoryIsCleanAndAlternates ==
    ui.pc \in {"context", "gem", "chat"} =>
        \A i \in 1..Len(ui.job.history) :
            /\ ui.job.history[i].text # <<>>
            /\ ~StartsWithError(ui.job.history[i].text)
            /\ ui.job.history[i].role = (IF i % 2 = 1 THEN "user" ELSE "model")

\* C28 witness: after a turn that ended in an error and a turn that was
\* answered, the history of the third holds the user messages of both in a
\* row.
HistoryWithTwoUserTurnsInARow ==
    /\ ui.pc = "chat"
    /\ ui.submits = 3
    /\ Len(ui.messages) = 6
    /\ StartsWithError(ui.messages[2].text)
    /\ Len(ui.job.history) = 3
    /\ ui.job.history[1].role = "user"
    /\ ui.job.history[2].role = "user"
    /\ ui.job.history[3].role = "model"

\* ============================================= properties (CommandsSpec)

\* The lines of a config document that lie under its 'Custom Commands'
\* heading: from the line after the first such heading to the line before the
\* next heading of another name.
LinesUnderHeading(lines) ==
    LET heads == {i \in 1..Len(lines) : lines[i] = <<CommandsHeading>>}
        first == MinOf(heads)
        next  == {i \in (first + 1)..Len(lines) : lines[i] # <<>> /\ lines[i][1] = "#"}
    IN  IF heads = {} THEN <<>>
        ELSE SubSeq(lines, first + 1, IF next = {} THEN Len(lines) ELSE MinOf(next) - 1)

\* The entry of a list line '- Label: prompt text': the label is the text
\* before the first colon, the prompt everything after it.
EntryOf(line) ==
    LET colon == MinOf({i \in 1..Len(line) : line[i] = ":"})
    IN  [label  |-> Trim(SubSeq(line, 2, colon - 1)),
         prompt |-> Trim(SubSeq(line, colon + 1, Len(line)))]

\* C18 (as claimed): getCustomCommands returns, in document order, one
\* {label, prompt} entry for each list line with a colon that lies between
\* the 'Custom Commands' heading and the next heading, and nothing else; the
\* empty list when the document or the heading is absent.
CommandsAreThoseUnderTheHeading ==
    turn.op = "getCustomCommands" =>
       /\ turn.outcome.kind = "resolved"
       /\ turn.outcome.text.arg =
             (IF ~IsTFile(files, <<ConfigFile>>) THEN <<>>
              ELSE LET under == LinesUnderHeading(SplitOn(files[<<ConfigFile>>].text, "\n"))
                       items == SelectSeq(under,
                                   LAMBDA l : l # <<>> /\ l[1] = "-" /\ ":" \in CharsOf(l))
                   IN  [i \in 1..Len(items) |-> EntryOf(items[i])])

\* C18 witness of the divergence: the document holds the heading, another
\* heading and a list line under that other heading, and the call returned
\* an entry for that line.
CommandFromUnderAnotherHeading ==
    /\ turn.op = "getCustomCommands"
    /\ IsTFile(files, <<ConfigFile>>)
    /\ SplitOn(files[<<ConfigFile>>].text, "\n") =
          <<<<CommandsHeading>>, <<"#", "#", " ", "o">>, <<"-", " ", "a", ":", " ", "b">>>>
    /\ turn.outcome.text.arg = <<[label |-> <<"a">>, prompt |-> <<"b">>]>>

\* ================================================ properties (ReplaceSpec)

\* The variants of a target in the order they are tried: the literal target,
\* the one with every '/' encoded, the one with every '%2F' decoded.
Variants(target) == <<target, EncodeSlashes(target), DecodeSlashes(target)>>

\* The variants of the target that occur in content, by their position.
Occurring(content, target) ==
    {i \in 1..3 : Includes(content, Variants(target)[i])}

\* C22: replace_in_note on an existing document replaces the first of the
\* literal, encoded and decoded target that occurs in it and returns the
\* success string, always so when the literal target occurs; when none
\* occurs it returns, without throwing, the string saying the target was not
\* found and leaves the store as it was; the string returned is the result
\* pushed as the function response.
ReplaceTriesThreeVariants ==
    [][(last'.op = "replace" /\ ops' = ops + 1 /\ IsTFile(files, NormalizePath(last'.path))) =>
          LET p       == NormalizePath(last'.path)
              content == files[p].text
              hits    == Occurring(content, last'.target)
          IN  /\ last'.ok
              /\ threwAt' = {}
              /\ folders' = folders
              /\ DOMAIN files' = DOMAIN files
              /\ \A q \in DOMAIN files \ {p} : files'[q] = files[q]
              /\ Len(functionResponses') = 1
              /\ functionResponses'[1].name = "replace_in_note"
              /\ functionResponses'[1].result.text = last'.value.text
              /\ functionResponses'[1].result.arg = last'.path
              /\ IF hits = {}
                 THEN /\ last'.value.text = "Target string not found in "
                      /\ files' = files
                 ELSE /\ last'.value.text = "Successfully replaced content in "
                      /\ files'[p].text =
                           JsReplace(content, Variants(last'.target)[MinOf(hits)],
                                     last'.replacement)
              /\ Includes(content, last'.target) =>
                     /\ last'.value.text = "Successfully replaced content in "
                     /\ files'[p].text = JsReplace(content, last'.target, last'.replacement)]_vars

\* C22 witness: the target '/%2F' does not occur in '%2F%2F//', its encoded
\* and its decoded variant both do: the encoded one was replaced.
EncodedVariantReplaced ==
    /\ last.op = "replace"
    /\ ops = 1
    /\ last.ok
    /\ last.target = <<"/", "%", "2", "F">>
    /\ last.replacement = <<"c">>
    /\ last.value.text = "Successfully replaced content in "
    /\ files[NotePath].text = <<"c", "/", "/">>
    /\ functionResponses[1].result.text = "Successfully replaced content in "

\* =================================================== properties (ListSpec)

\* The documents below a folder in depth-first order of the tree: the paths
\* of the documents, a path before another when, at the first segment where
\* they differ, its child comes first among the children of the folder.
Position(children, name) == CHOOSE i \in 1..Len(children) : children[i] = name

ComesBefore(fo, p, q) ==
    \E k \in 1..Len(p) :
        /\ k <= Len(q)
        /\ SubSeq(p, 1, k - 1) = SubSeq(q, 1, k - 1)
        /\ p[k] # q[k]
        /\ Position(fo[SubSeq(p, 1, k - 1)], p[k]) < Position(fo[SubSeq(p, 1, k - 1)], q[k])

Listable(fs, folder, recursive) ==
    {p \in DOMAIN fs :
        /\ IsPrefix(folder, p)
        /\ p # folder
        /\ recursive \/ Len(p) = Len(folder) + 1}

IsListingOf(listing, fs, fo, folder, recursive) ==
    /\ {listing[i] : i \in 1..Len(listing)} = Listable(fs, folder, recursive)
    /\ Len(listing) = Cardinality(Listable(fs, folder, recursive))
    /\ \A i, j \in 1..Len(listing) : i < j => ComesBefore(fo, listing[i], listing[j])

\* C23 (as claimed): listFiles returns, without throwing and without changing
\* the store, at most limit paths that are a prefix of the listing of the
\* documents of the directory (depth-first when recursive, the direct
\* children when not), and the empty list when the directory is not a folder.
ListingTruncatedToLimit ==
    [][last'.op = "list" =>
          LET listing == last'.value.arg
              p       == NormalizePath(last'.path)
          IN  /\ last'.ok
              /\ files' = files
              /\ folders' = folders
              /\ \A i \in 1..Len(listing) : IsTFile(files, listing[i])
              /\ ~IsTFolder(folders, p) => listing = <<>>
              /\ IsTFolder(folders, p) =>
                    \E rest \in SUBSET DOMAIN files :
                       \E full \in [1..(Len(listing) + Cardinality(rest)) -> DOMAIN files] :
                          /\ IsListingOf(full, files, folders, p, last'.recursive)
                          /\ SubSeq(full, 1, Len(listing)) = listing
              /\ Len(listing) <= last'.limit]_vars

\* C23 (what holds): the same for every limit that is not negative.
ListingTruncatedToNaturalLimit ==
    [][(last'.op = "list" /\ last'.limit >= 0) =>
          LET listing == last'.value.arg
              p       == NormalizePath(last'.path)
          IN  /\ last'.ok
              /\ files' = files
              /\ folders' = folders
              /\ \A i \in 1..Len(listing) : IsTFile(files, listing[i])
              /\ ~IsTFolder(folders, p) => listing = <<>>
              /\ IsTFolder(folders, p) =>
                    \E rest \in SUBSET DOMAIN files :
                       \E full \in [1..(Len(listing) + Cardinality(rest)) -> DOMAIN files] :
                          /\ IsListingOf(full, files, folders, p, last'.recursive)
                          /\ SubSeq(full, 1, Len(listing)) = listing
              /\ Len(listing) <= last'.limit]_vars

\* C23 witness: a list_files call with limit -1 returned all the documents
\* of the directory but the last.
NegativeLimitListed ==
    /\ last.op = "list"
    /\ last.limit = -1
    /\ last.recursive
    /\ last.path = <<>>
    /\ Len(last.value.arg) = Cardinality(DOMAIN files) - 1
    /\ Len(last.value.arg) > last.limit

\* =============================================== properties (SaveReadSpec)

\* C24: a saveNote that succeeds leaves the document of its path with exactly
\* the content given, whether it overwrote or created it, and every other
\* document as it was; the readFile that follows it on the same path returns
\* that content; readFile of a path that is no document throws the not-found
\* error; readFile never changes the store.
ReadReturnsWhatWasSaved ==
    [][/\ (last'.op = "save" /\ ops' = ops + 1 /\ last'.ok) =>
             LET p == NormalizePath(last'.path)
             IN  /\ IsTFile(files', p)
                 /\ files'[p].text = last'.text
                 /\ \A q \in DOMAIN files \ {p} : IsTFile(files', q) /\ files'[q] = files[q]
                 /\ DOMAIN files' = DOMAIN files \cup {p}
                 /\ last'.value.text = IF IsTFile(files, p)
                                       THEN "Successfully updated note: "
                                       ELSE "Successfully created note: "
       /\ (last'.op = "read" /\ ops' = ops + 1) =>
             LET p == NormalizePath(last'.path)
             IN  /\ files' = files
                 /\ folders' = folders
                 /\ last'.ok = IsTFile(files, p)
                 /\ last'.ok => (last'.value.text = "content"
                                 /\ last'.value.arg.text = files[p].text)
                 /\ ~last'.ok => (last'.value.text = "File not found: "
                                  /\ last'.value.arg = last'.path)
                 /\ (last.op = "save" /\ last.ok /\ NormalizePath(last.path) = p) =>
                        (last'.ok /\ last'.value.arg.text = last.text)]_vars

\* C24 witness: a document saved in a folder that did not exist was read back.
NestedNoteReadBack ==
    /\ last.op = "read"
    /\ ops = 2
    /\ last.ok
    /\ last.path = <<SubFolder, NoteName>>
    /\ last.value.text = "content"
    /\ last.value.arg.text = <<"b">>

\* =================================================== properties (ViewSpec)

\* C26: the staged attachments are emptied when the chat() call of a submit
\* resolves and left as they are when it rejects; handleSubmit changes them
\* at no other point.
AttachmentsClearedOnResolve ==
    [][/\ \A job \in ui.jobs :
             job \notin ui'.jobs =>
                \E done \in ui'.ended \ ui.ended :
                   /\ done.id = job.id
                   /\ done.kind \in {"resolved", "rejected"}
                   /\ done.kind = "resolved" => ui'.attachments = 0
                   /\ done.kind = "rejected" => ui'.attachments = ui.attachments
       /\ ui'.submits # ui.submits => ui'.attachments = ui.attachments]_vars

\* C26 witness: a submit with a staged attachment was rejected and the
\* attachment is still staged.
AttachmentKeptAfterRejection ==
    /\ ui.submits = 1
    /\ ui.jobs = {}
    /\ ui.attachments = 1
    /\ \E done \in ui.ended : done.kind = "rejected"
    /\ Len(ui.messages) = 2
    /\ Includes(ui.messages[1].text, <<"\n[Attached ">>)

\* The message that shows what the chat() call of a submit yielded.
ShownFor(done) == SettledMessage(Settled(done.kind, done.text))

\* C27 (as claimed): once every chat() call has settled, no message is a
\* thinking placeholder, and every user message whose submit has settled is
\* directly followed by what its own chat() call yielded.
OverlappingTurnsKeepTheirPlace ==
    ui.jobs = {} =>
        /\ \A i \in 1..Len(ui.messages) : ~ui.messages[i].isThinking
        /\ \A i \in 1..Len(ui.messages) :
              ui.messages[i].role = "user" =>
                 /\ i < Len(ui.messages)
                 /\ \E done \in ui.ended :
                       /\ ui.messages[i].text[2] = done.id
                       /\ ui.messages[i + 1].text = ShownFor(done).text

\* C27 witness: two submits overlapped and both chat() calls resolved: the
\* placeholder of the first is still there and the place of the second
\* shows a response.
PlaceholderLeftByOverlap ==
    /\ ui.jobs = {}
    /\ ui.submits = 2
    /\ Len(ui.messages) = 4
    /\ ui.messages[2].isThinking
    /\ ~ui.messages[4].isThinking
    /\ \A done \in ui.ended : done.kind = "resolved" /\ done.text[1] = "r"
    /\ Cardinality(ui.ended) = 2

\* ================================================= properties (ModelsSpec)

\* C29 (as claimed): once every getModels() promise has settled, the list
\* displayed is a list of the active provider and the selected model is one
\* of its ids, or unset when the list is empty; the model id a submit passes
\* then belongs to the provider it is passed to.
ModelsFollowTheActiveProvider ==
    /\ ui.pending = {} =>
          /\ \A i \in 1..Len(ui.models) : ui.models[i].provider = ui.active
          /\ ui.models # <<>> => \E i \in 1..Len(ui.models) : ui.models[i] = ui.selected
          /\ ui.models = <<>> => ui.selected = NoModel
    /\ (ui.passed.quiet /\ ui.passed.model # NoModel) =>
          ui.passed.model.provider = ui.passed.provider

\* C29 witness: after a switch from Gemini to Anthropic the list of Gemini
\* settled last: the view shows the models of Gemini for Anthropic, and a
\* submit passed a Gemini model id to the Anthropic adapter.
StaleModelsDisplayed ==
    /\ ui.pending = {}
    /\ ui.switches = 1
    /\ ui.active = "anthropic"
    /\ ui.models # <<>>
    /\ ui.models[1].provider = "gemini"
    /\ ui.selected.provider = "gemini"
    /\ ui.passed.quiet
    /\ ui.passed.provider = "anthropic"
    /\ ui.passed.model.provider = "gemini"

\* ================================================= properties (InputsSpec)

\* No piece of a context is in the request.
WithoutContext(request) ==
    /\ ~Includes(request.prompt, <<"Context:\n", "c">>)
    /\ ~Includes(request.prompt, <<"File Context:\n", "c">>)
    /\ \A i \in 1..Len(request.history) : ~Includes(request.history[i].text, <<"c">>)

====
